---- MODULE Spec2Model ----
(***************************************************************************)
(* Task / agent assignment in the tracer-web REST API.                     *)
(*                                                                         *)
(* The state is the content of the Task and Agent collections.  Every      *)
(* route handler that writes to them is one action; its guard and its      *)
(* writes are those of the handler, its inputs are the request's path,     *)
(* query and body values.  `last` is the response of the last request.     *)
(***************************************************************************)
EXTENDS Integers, FiniteSets, Sequences, TLC

\* ------------------------------------------------------------------ bounds
\* Documents (tasks and agents together) created in one run.  Each gets a fresh
\* ObjectId of its collection, 1, 2, ..., which is never handed out again.
MaxDocuments == 3

\* Handler calls that may be suspended at an await at the same time.
MaxInflight == 2

\* Projects created in one run, and planning sessions created in one run.
MaxProjects == 2
MaxSessions == 1

\* ------------------------------------------------------- values of requests
\* A field that is absent from the request (JavaScript undefined).
Undefined == -2
\* A string that is no 24-digit hexadecimal ObjectId.
BadId == -1
\* null, the default of Task.agentId and of Agent.currentTaskId.
Null == 0

TaskIds == 1..MaxDocuments
AgentIds == 1..MaxDocuments

TaskStatus == {"pending", "in-progress", "completed", "blocked"}
AgentStatus == {"idle", "working", "busy", "suspended"}
\* A status string outside the schema's enum.
BadStatus == "bogus"
\* No status in the request body.
NoStatus == "undefined"

\* /^[0-9a-fA-F]{24}$/.test(id)
IsObjectId(id) == id >= 1

VARIABLES
    tasks,      \* Task collection: stored task id -> document
    agents,     \* Agent collection: stored agent id -> document
    nextTask,   \* the next ObjectId of the Task collection
    nextAgent,  \* the next ObjectId of the Agent collection
    last,       \* the last request served in one step, and its response
    inflight,   \* the handler calls suspended at an await, by slot
    projects,   \* Project collection: stored project id -> document
    sessions,   \* PlanningSession collection: stored session id -> document
    nextProject,  \* the next ObjectId of the Project collection
    nextSession,  \* the next ObjectId of the PlanningSession collection
    listing,      \* the pagination object of the last list response
    statsInput,   \* the tasks and agents a statistics computation is given
    metrics,      \* the statistics last computed, and by which function
    store,        \* the AppState of the AppProvider's useReducer
    dispatched,   \* the action last passed to dispatch
    idCounter,    \* the counter of generateId
    retry,        \* a call of retryOperation: its arguments, locals and result
    race,         \* a call of withTimeout: its promises, its timer and the clock
    mongo,        \* global.mongoose and the calls of connectDB
    provider,     \* the AppProvider's API functions in flight, and their server
    fields        \* the numeric field of the last agent and task posted

\* The Project and PlanningSession collections.
projectVars == <<projects, sessions, nextProject, nextSession>>

\* The inputs and results of the functions that run outside the handlers.
statVars == <<statsInput, metrics>>
storeVars == <<store, dispatched, idCounter>>
\* The calls of the utility functions other than retryOperation.
libVars == <<race, mongo, provider, fields>>

clientVars == <<statVars, storeVars, retry, libVars>>

\* The collections and calls of the REST API.
apiVars ==
    <<tasks, agents, nextTask, nextAgent, last, inflight, projectVars, listing>>

vars == <<apiVars, clientVars>>

\* The request and response of one handler call: the operation, the task and
\* agent ids it named in the request or in its queries (when both are well
\* formed), the HTTP status of the NextResponse, and the number of documents
\* the handler's updateMany matched.  p is the project id of a request to
\* /api/projects.  malformed: an identifier of the request (in its path, its
\* query or its body) is no ObjectId.
Response(op, t, a, code, matched) ==
    [op |-> op,
     malformed |-> t = BadId \/ a = BadId,
     p |-> Null,
     t |-> IF t >= 1 /\ a /= BadId /\ a /= Undefined THEN t ELSE Null,
     a |-> IF a >= 1 /\ t /= BadId /\ t /= Undefined THEN a ELSE Null,
     code |-> code,
     matched |-> matched]

\* A handler call between two awaits: the operation and its ids, the await it
\* is suspended at, the link it has read (task.agentId, or the currentTaskId
\* of the agent to delete), the database writes it has
\* issued and not yet seen settle, those that were applied, whether one was
\* rejected, and the status it answers with.
Call(op, t, a, pc, seen, todo, done, failed, code) ==
    [op |-> op, t |-> t, a |-> a, pc |-> pc, seen |-> seen,
     todo |-> todo, done |-> done, failed |-> failed, code |-> code]

Slots == 1..MaxInflight
NoCall == Call("none", Null, Null, "idle", Null, {}, {}, FALSE, 0)

\* No list has been requested yet.
NoListing == [page |-> 0, limit |-> 0, total |-> 0, pages |-> 0]

\* No statistics computed yet.
NoMetrics == [fn |-> "none"]

\* The database is empty and no request has been served.
InitApi ==
    /\ tasks = <<>>
    /\ agents = <<>>
    /\ nextTask = 1
    /\ nextAgent = 1
    /\ last = Response("none", Null, Null, 0, 0)
    /\ inflight = [s \in Slots |-> NoCall]
    /\ projects = <<>>
    /\ sessions = <<>>
    /\ nextProject = 1
    /\ nextSession = 1
    /\ listing = NoListing

\* currentProject: null.
NullProject == [id |-> Null, name |-> "", tasks |-> <<>>, agents |-> <<>>]

\* error: null.
NoError == "null"

\* An action of the reducer: its type and its payload.  The payload of
\* SET_LOADING is flag, that of SET_ERROR is error, the updates of
\* UPDATE_PROJECT are name, the payload of LOAD_PROJECTS is projects, that of
\* LOAD_PLANNING_SESSIONS is sessions, that of CREATE_PLANNING_SESSION is
\* session; a field that a type does not carry is null.
AppAction(type, project, projectId, id, agentId, status) ==
    [type |-> type, project |-> project, projectId |-> projectId, id |-> id,
     agentId |-> agentId, status |-> status, name |-> "", flag |-> FALSE,
     error |-> NoError, projects |-> <<>>, sessions |-> <<>>, session |-> Null]

NoAction == AppAction("none", NullProject, Null, Null, Null, "")

\* initialState of the reducer; nothing dispatched; no id generated.
InitStore ==
    /\ store = [projects |-> <<>>, currentProject |-> NullProject,
                planningSessions |-> <<>>, currentSession |-> Null,
                loading |-> FALSE, error |-> NoError]
    /\ dispatched = NoAction
    /\ idCounter = 0

\* A call of retryOperation(operation, maxRetries) at the test of its loop.
\* attempt and lastError are its locals, log the outcomes of the invocations
\* of operation so far, result how the returned promise has settled.
RetryCall(maxRetries) ==
    [maxRetries |-> maxRetries, attempt |-> 1, pc |-> "loop",
     lastError |-> [kind |-> "undefined"], log |-> <<>>,
     result |-> [state |-> "pending"]]

\* retryOperation is not running.
NoRetry == [RetryCall(0) EXCEPT !.pc = "idle"]

\* A call of withTimeout(promise, timeoutMs) as it returns: now is the time
\* since the call in ms, promise the state of the wrapped promise, timer that
\* of setTimeout's timer, result that of the promise Promise.race returned.
RaceCall(promise, timeoutMs) ==
    [timeoutMs |-> timeoutMs, now |-> 0, promise |-> promise,
     timer |-> "pending", result |-> promise, settlements |-> 0]

\* A promise that has not settled.
Pending == [state |-> "pending"]

\* withTimeout is not running.
NoRace == [RaceCall(Pending, 0) EXCEPT !.timer = "idle"]

\* The largest number of concurrent callers of connectDB.
MaxCallers == 2

\* The module of connectDB as loaded: cached = { conn: null, promise: null },
\* no mongoose.connect attempted (attempts lists each attempt's state, conn and
\* promise refer to an attempt by its index), no caller inside connectDB,
\* nobody waiting at the await, no continuation queued as a microtask.
Loaded ==
    [cached |-> [conn |-> Null, promise |-> Null],
     attempts |-> <<>>,
     callers |-> [c \in 1..MaxCallers |-> [pc |-> "idle", on |-> Null, got |-> Null]],
     waiting |-> <<>>,
     queue |-> <<>>]

\* The largest number of API functions of the AppProvider in flight, and of
\* projects and of planning sessions its server stores.
MaxCalls == 2
MaxServerProjects == 1
MaxServerSessions == 1

\* No API function of the AppProvider has been called; its server stores
\* nothing and has issued no id.
Mounted ==
    [calls |-> [slot \in 1..MaxCalls |-> [fn |-> "none", id |-> Null]],
     projects |-> {}, issued |-> 0, sessions |-> 0]

\* A value of a JSON body: a number, null, or no value at all.
Given(n) == [type |-> "number", value |-> n]
JsNull == [type |-> "null"]
Omitted == [type |-> "undefined"]

\* Nothing has been posted with a numeric field.
NothingPosted == [given |-> Omitted, stored |-> Omitted, code |-> 0]

\* No function outside the handlers has been given anything.
InitClient ==
    /\ statsInput = [tasks |-> <<>>, agents |-> <<>>]
    /\ metrics = NoMetrics
    /\ InitStore
    /\ retry = NoRetry
    /\ race = NoRace
    /\ mongo = Loaded
    /\ provider = Mounted
    /\ fields = [efficiency |-> NothingPosted, estimatedHours |-> NothingPosted]

Init == InitApi /\ InitClient

\* The ids a client has been given so far (stored or deleted since).
IssuedTasks == 1..(nextTask - 1)
IssuedAgents == 1..(nextAgent - 1)

\* Another document may be created.
CanCreate == (nextTask - 1) + (nextAgent - 1) < MaxDocuments

\* ------------------------------------------------------------- documents
\* new Task({...}) as saved by POST /tasks.
NewTask(projectId, status, agentId, dependencies) ==
    [projectId |-> projectId, status |-> status, agentId |-> agentId,
     dependencies |-> dependencies]

\* new Agent({...}) as saved by POST /agents; currentTaskId takes its default.
NewAgent(projectId, status) ==
    [projectId |-> projectId, status |-> status, currentTaskId |-> Null]

\* collection.insert: the document is stored under a fresh id.
Insert(coll, id, doc) == [x \in DOMAIN coll \cup {id} |-> IF x = id THEN doc ELSE coll[x]]

\* Model.findByIdAndDelete(id)
FindByIdAndDelete(coll, id) == [x \in DOMAIN coll \ {id} |-> coll[x]]

\* ------------------------------------------------- POST /api/tasks/assign
\* AgentAvailable with the 'suspended' test dropped.
AgentAvailableBusyOnly(agent) == ~(agent.status = "busy")

\* "Check if agent is available"
AgentAvailable(agent) == ~(agent.status = "busy" \/ agent.status = "suspended")

\* "Check if task is already assigned": task.agentId is truthy.
TaskAssigned(task) == task.agentId /= Null

\* Task.findByIdAndUpdate(taskId, {agentId, status: 'in-progress'})
AssignTaskUpdate(ts, taskId, agentId) ==
    IF taskId \in DOMAIN ts
    THEN [ts EXCEPT ![taskId].agentId = agentId, ![taskId].status = "in-progress"]
    ELSE ts

\* AssignAgentUpdate with the status left as it was.
AssignAgentUpdateKeepStatus(ags, taskId, agentId) ==
    IF agentId \in DOMAIN ags
    THEN [ags EXCEPT ![agentId].currentTaskId = taskId]
    ELSE ags

\* Agent.findByIdAndUpdate(agentId, {currentTaskId: taskId, status: 'working'})
AssignAgentUpdate(ags, taskId, agentId) ==
    IF agentId \in DOMAIN ags
    THEN [ags EXCEPT ![agentId].currentTaskId = taskId, ![agentId].status = "working"]
    ELSE ags

\* The status of the response of POST /api/tasks/assign.
AssignCode(taskId, agentId) ==
    IF taskId = Undefined \/ agentId = Undefined THEN 400
    ELSE IF ~IsObjectId(taskId) \/ ~IsObjectId(agentId) THEN 400
    ELSE IF taskId \notin DOMAIN tasks THEN 404
    ELSE IF agentId \notin DOMAIN agents THEN 404
    ELSE IF ~AgentAvailable(agents[agentId]) THEN 400
    ELSE IF TaskAssigned(tasks[taskId]) THEN 400
    ELSE 200

AssignPOST(taskId, agentId) ==
    LET code == AssignCode(taskId, agentId) IN
    /\ tasks' = IF code = 200 THEN AssignTaskUpdate(tasks, taskId, agentId) ELSE tasks
    /\ agents' = IF code = 200 THEN AssignAgentUpdate(agents, taskId, agentId) ELSE agents
    /\ last' = Response("assign", taskId, agentId, code, 0)
    /\ UNCHANGED <<nextTask, nextAgent, inflight, projectVars, listing, clientVars>>

\* ----------------------------------------------- DELETE /api/tasks/assign
\* UnassignTaskUpdate with the status left as it was.
UnassignTaskUpdateKeepStatus(ts, taskId) ==
    IF taskId \in DOMAIN ts
    THEN [ts EXCEPT ![taskId].agentId = Null]
    ELSE ts

\* Task.findByIdAndUpdate(taskId, {agentId: null, status: 'pending'})
UnassignTaskUpdate(ts, taskId) ==
    IF taskId \in DOMAIN ts
    THEN [ts EXCEPT ![taskId].agentId = Null, ![taskId].status = "pending"]
    ELSE ts

\* Agent.findByIdAndUpdate(agentId, {currentTaskId: null, status: 'idle'})
UnassignAgentUpdate(ags, agentId) ==
    IF agentId \in DOMAIN ags
    THEN [ags EXCEPT ![agentId].currentTaskId = Null, ![agentId].status = "idle"]
    ELSE ags

\* UnassignCode without the test that the task is assigned to the agent.
UnassignCodeNoPairing(taskId, agentId) ==
    IF taskId = Undefined \/ agentId = Undefined THEN 400
    ELSE IF ~IsObjectId(taskId) \/ ~IsObjectId(agentId) THEN 400
    ELSE IF taskId \notin DOMAIN tasks THEN 404
    ELSE 200

\* The status of the response of DELETE /api/tasks/assign.
UnassignCode(taskId, agentId) ==
    IF taskId = Undefined \/ agentId = Undefined THEN 400
    ELSE IF ~IsObjectId(taskId) \/ ~IsObjectId(agentId) THEN 400
    ELSE IF taskId \notin DOMAIN tasks THEN 404
    ELSE IF tasks[taskId].agentId /= agentId THEN 400
    ELSE 200

AssignDELETE(taskId, agentId) ==
    LET code == UnassignCode(taskId, agentId) IN
    /\ tasks' = IF code = 200 THEN UnassignTaskUpdate(tasks, taskId) ELSE tasks
    /\ agents' = IF code = 200 THEN UnassignAgentUpdate(agents, agentId) ELSE agents
    /\ last' = Response("unassign", taskId, agentId, code, 0)
    /\ UNCHANGED <<nextTask, nextAgent, inflight, projectVars, listing, clientVars>>

\* --------------------------------------------------------- POST /api/tasks
\* task.save() rejects the document: a status outside the enum, or a
\* projectId or agentId that does not cast to an ObjectId.
TaskInvalid(projectId, status, agentId) ==
    \/ status \notin TaskStatus \cup {NoStatus}
    \/ agentId = BadId
    \/ projectId = BadId

\* TaskSchema.pre('save'): the document's own id is among its dependencies.
DependsOnItself(id, dependencies) == id \in dependencies

\* The status of the response of POST /api/tasks for the document that would
\* get id; hasRequired: title and description are both present.  Validation
\* runs before the pre-save hook, whose plain Error is answered with 500.
TasksPOSTCode(hasRequired, id, projectId, status, agentId, dependencies) ==
    IF ~hasRequired \/ projectId = Undefined THEN 400
    ELSE IF TaskInvalid(projectId, status, agentId) THEN 400
    ELSE IF DependsOnItself(id, dependencies) THEN 500
    ELSE 201

\* The document POST /api/tasks builds from the body.
TasksPOSTDoc(projectId, status, agentId, dependencies) ==
    NewTask(projectId,
            IF status = NoStatus THEN "pending" ELSE status,
            IF agentId = Undefined THEN Null ELSE agentId,
            dependencies)

TasksPOST(hasRequired, projectId, status, agentId, dependencies) ==
    LET code == TasksPOSTCode(hasRequired, nextTask, projectId, status, agentId,
                              dependencies) IN
    /\ CanCreate
    /\ IF code = 201
       THEN /\ tasks' = Insert(tasks, nextTask,
                               TasksPOSTDoc(projectId, status, agentId, dependencies))
            /\ nextTask' = nextTask + 1
            /\ last' = Response("createTask", nextTask, Null, code, 0)
       ELSE /\ UNCHANGED <<tasks, nextTask>>
            /\ last' = [Response("createTask", Null, Null, code, 0) EXCEPT
                            !.malformed = projectId = BadId \/ agentId = BadId]
    /\ UNCHANGED <<agents, nextAgent, inflight, projectVars, listing, clientVars>>

\* ---------------------------------------------------- PUT /api/tasks/[id]
\* The update document of Task.findByIdAndUpdate, applied to a stored task.
TaskPUTDoc(task, status, agentId, hasDeps, dependencies) ==
    [projectId |-> task.projectId,
     status |-> IF status = NoStatus THEN task.status ELSE status,
     agentId |-> IF agentId = Undefined THEN task.agentId ELSE agentId,
     dependencies |-> IF hasDeps THEN dependencies ELSE task.dependencies]

\* The status of the response of PUT /api/tasks/[id].
TaskPUTCode(taskId, status, agentId) ==
    IF ~IsObjectId(taskId) THEN 400
    ELSE IF agentId = BadId THEN 500
    ELSE IF status \notin TaskStatus \cup {NoStatus} THEN 400
    ELSE IF taskId \notin DOMAIN tasks THEN 404
    ELSE 200

\* "If task is assigned to an agent, update agent's current task": the
\* populated agentId is null when the agent is not stored.
TaskPUTAgentUpdate(ags, taskId, task) ==
    IF task.agentId \in DOMAIN ags /\ task.status = "in-progress"
    THEN [ags EXCEPT ![task.agentId].currentTaskId = taskId,
                     ![task.agentId].status = "working"]
    ELSE ags

TaskPUT(taskId, status, agentId, hasDeps, dependencies) ==
    LET code == TaskPUTCode(taskId, status, agentId) IN
    /\ IF code = 200
       THEN LET task == TaskPUTDoc(tasks[taskId], status, agentId, hasDeps, dependencies) IN
            /\ tasks' = [tasks EXCEPT ![taskId] = task]
            /\ agents' = TaskPUTAgentUpdate(agents, taskId, task)
       ELSE UNCHANGED <<tasks, agents>>
    /\ last' = [Response("updateTask", taskId, Null, code, 0) EXCEPT
                    !.malformed = taskId = BadId \/ agentId = BadId]
    /\ UNCHANGED <<nextTask, nextAgent, inflight, projectVars, listing, clientVars>>

\* ------------------------------------------------- DELETE /api/tasks/[id]
\* "If task is assigned to an agent, update agent status"
TaskDELETEAgentUpdate(ags, task) ==
    IF task.agentId /= Null /\ task.agentId \in DOMAIN ags
    THEN [ags EXCEPT ![task.agentId].currentTaskId = Null,
                     ![task.agentId].status = "idle"]
    ELSE ags

\* The filter {dependencies: taskId}: the tasks that depend on taskId.
DependentTasks(ts, taskId) == {x \in DOMAIN ts : taskId \in ts[x].dependencies}

\* PullDependency as an updateOne: only the first dependent task is updated.
PullDependencyOne(ts, taskId) ==
    [x \in DOMAIN ts |->
        IF x \in DependentTasks(ts, taskId)
              /\ \A y \in DependentTasks(ts, taskId) : x <= y
        THEN [ts[x] EXCEPT !.dependencies = @ \ {taskId}]
        ELSE ts[x]]

\* Task.updateMany({dependencies: taskId}, {$pull: {dependencies: taskId}})
PullDependency(ts, taskId) ==
    [x \in DOMAIN ts |->
        IF x \in DependentTasks(ts, taskId)
        THEN [ts[x] EXCEPT !.dependencies = @ \ {taskId}]
        ELSE ts[x]]

\* The status of the response of DELETE /api/tasks/[id].
TaskDELETECode(taskId) ==
    IF ~IsObjectId(taskId) THEN 400
    ELSE IF taskId \notin DOMAIN tasks THEN 404
    ELSE 200

TaskDELETE(taskId) ==
    LET code == TaskDELETECode(taskId) IN
    /\ IF code = 200
       THEN /\ agents' = TaskDELETEAgentUpdate(agents, tasks[taskId])
            /\ tasks' = FindByIdAndDelete(PullDependency(tasks, taskId), taskId)
       ELSE UNCHANGED <<tasks, agents>>
    /\ last' = Response("deleteTask", taskId,
                         IF code = 200 THEN tasks[taskId].agentId ELSE Null, code,
                         IF code = 200 THEN Cardinality(DependentTasks(tasks, taskId)) ELSE 0)
    /\ UNCHANGED <<nextTask, nextAgent, inflight, projectVars, listing, clientVars>>

\* -------------------------------------------------------- POST /api/agents
\* The status of the response of POST /api/agents; hasRequired: name and type
\* are both present.
AgentsPOSTCode(hasRequired, projectId, status) ==
    IF ~hasRequired \/ projectId = Undefined THEN 400
    ELSE IF status \notin AgentStatus \cup {NoStatus} \/ projectId = BadId THEN 400
    ELSE 201

AgentsPOST(hasRequired, projectId, status) ==
    LET code == AgentsPOSTCode(hasRequired, projectId, status) IN
    /\ CanCreate
    /\ IF code = 201
       THEN /\ agents' = Insert(agents, nextAgent,
                                NewAgent(projectId,
                                         IF status = NoStatus THEN "idle" ELSE status))
            /\ nextAgent' = nextAgent + 1
            /\ last' = Response("createAgent", Null, nextAgent, code, 0)
       ELSE /\ UNCHANGED <<agents, nextAgent>>
            /\ last' = [Response("createAgent", Null, Null, code, 0) EXCEPT
                            !.malformed = projectId = BadId]
    /\ UNCHANGED <<tasks, nextTask, inflight, projectVars, listing, clientVars>>

\* --------------------------------------------------- PUT /api/agents/[id]
\* The status of the response of PUT /api/agents/[id].
AgentPUTCode(agentId, status) ==
    IF ~IsObjectId(agentId) THEN 400
    ELSE IF status \notin AgentStatus \cup {NoStatus} THEN 400
    ELSE IF agentId \notin DOMAIN agents THEN 404
    ELSE 200

AgentPUT(agentId, status) ==
    LET code == AgentPUTCode(agentId, status) IN
    /\ agents' = IF code = 200 /\ status /= NoStatus
                 THEN [agents EXCEPT ![agentId].status = status]
                 ELSE agents
    /\ last' = Response("updateAgent", Null, agentId, code, 0)
    /\ UNCHANGED <<tasks, nextTask, nextAgent, inflight, projectVars, listing, clientVars>>

\* ------------------------------------------------ DELETE /api/agents/[id]
\* The filter {agentId}: the tasks that reference the agent.
TasksOfAgent(ts, agentId) == {x \in DOMAIN ts : ts[x].agentId = agentId}

\* UnassignAllTasks that clears the reference and leaves the status.
UnassignAllTasksKeepStatus(ts, agentId) ==
    [x \in DOMAIN ts |->
        IF x \in TasksOfAgent(ts, agentId)
        THEN [ts[x] EXCEPT !.agentId = Null]
        ELSE ts[x]]

\* "Unassign all tasks from this agent":
\* Task.updateMany({agentId}, {agentId: null, status: 'pending'})
UnassignAllTasks(ts, agentId) ==
    [x \in DOMAIN ts |->
        IF x \in TasksOfAgent(ts, agentId)
        THEN [ts[x] EXCEPT !.agentId = Null, !.status = "pending"]
        ELSE ts[x]]

\* The status of the response of DELETE /api/agents/[id].
AgentDELETECode(agentId) ==
    IF ~IsObjectId(agentId) THEN 400
    ELSE IF agentId \notin DOMAIN agents THEN 404
    ELSE 200

AgentDELETE(agentId) ==
    LET code == AgentDELETECode(agentId) IN
    /\ IF code = 200
       THEN /\ tasks' = UnassignAllTasks(tasks, agentId)
            /\ agents' = FindByIdAndDelete(agents, agentId)
       ELSE UNCHANGED <<tasks, agents>>
    /\ last' = Response("deleteAgent", Null, agentId, code,
                         IF code = 200 THEN Cardinality(TasksOfAgent(tasks, agentId)) ELSE 0)
    /\ UNCHANGED <<nextTask, nextAgent, inflight, projectVars, listing, clientVars>>

\* ------------------------------------------------------ POST /api/projects
\* Another project, another planning session may be created.
CanCreateProject == nextProject - 1 < MaxProjects
CanCreateSession == nextSession - 1 < MaxSessions

\* The ids of the projects a client has been given so far.
IssuedProjects == 1..(nextProject - 1)

\* The response of a request to /api/projects about project p.
ProjectResponse(op, p, code, matched) ==
    [Response(op, Null, Null, code, matched) EXCEPT
        !.p = IF p >= 1 THEN p ELSE Null,
        !.malformed = p = BadId]

\* new Project({...}) as saved by POST /api/projects.
NewProject == [status |-> "active"]

\* The status of the response of POST /api/projects; hasRequired: name and
\* description are both present.
ProjectsPOSTCode(hasRequired) == IF ~hasRequired THEN 400 ELSE 201

ProjectsPOST(hasRequired) ==
    LET code == ProjectsPOSTCode(hasRequired) IN
    /\ CanCreateProject
    /\ IF code = 201
       THEN /\ projects' = Insert(projects, nextProject, NewProject)
            /\ nextProject' = nextProject + 1
            /\ last' = ProjectResponse("createProject", nextProject, code, 0)
       ELSE /\ UNCHANGED <<projects, nextProject>>
            /\ last' = ProjectResponse("createProject", Null, code, 0)
    /\ UNCHANGED <<tasks, agents, nextTask, nextAgent, inflight, sessions, nextSession,
                 listing, clientVars>>

\* --------------------------------------------- POST /api/planning-sessions
\* new PlanningSession({...}) as saved by POST /api/planning-sessions.
\* taskIds and agentIds are the body's tasks and agents, or [] without them.
NewSession(projectId, taskIds, agentIds) ==
    [projectId |-> projectId, tasks |-> taskIds, agents |-> agentIds]

\* The status of the response of POST /api/planning-sessions; hasRequired:
\* name and description are both present.
SessionsPOSTCode(hasRequired, projectId) ==
    IF ~hasRequired \/ projectId = Undefined THEN 400
    ELSE IF projectId = BadId THEN 400
    ELSE 201

SessionsPOST(hasRequired, projectId, taskIds, agentIds) ==
    LET code == SessionsPOSTCode(hasRequired, projectId) IN
    /\ CanCreateSession
    /\ IF code = 201
       THEN /\ sessions' = Insert(sessions, nextSession,
                                  NewSession(projectId, taskIds, agentIds))
            /\ nextSession' = nextSession + 1
       ELSE UNCHANGED <<sessions, nextSession>>
    /\ last' = ProjectResponse("createSession", projectId, code, 0)
    /\ UNCHANGED <<tasks, agents, nextTask, nextAgent, inflight, projects, nextProject,
                 listing, clientVars>>

\* ---------------------------------------------- DELETE /api/projects/[id]
\* The filter {projectId}: the documents of coll that belong to the project.
OfProject(coll, projectId) == {x \in DOMAIN coll : coll[x].projectId = projectId}

\* Model.deleteMany({projectId}) that deletes nothing.
DeleteNone(coll, projectId) == coll

\* Model.deleteMany({projectId})
DeleteMany(coll, projectId) ==
    [x \in DOMAIN coll \ OfProject(coll, projectId) |-> coll[x]]

\* The status of the response of DELETE /api/projects/[id].
ProjectDELETECode(projectId) ==
    IF ~IsObjectId(projectId) THEN 400
    ELSE IF projectId \notin DOMAIN projects THEN 404
    ELSE 200

ProjectDELETE(projectId) ==
    LET code == ProjectDELETECode(projectId) IN
    /\ IF code = 200
       THEN /\ tasks' = DeleteMany(tasks, projectId)
            /\ agents' = DeleteMany(agents, projectId)
            /\ sessions' = DeleteMany(sessions, projectId)
            /\ projects' = FindByIdAndDelete(projects, projectId)
       ELSE UNCHANGED <<tasks, agents, sessions, projects>>
    /\ last' = ProjectResponse("deleteProject", projectId, code,
                    IF code = 200
                    THEN Cardinality(OfProject(tasks, projectId))
                         + Cardinality(OfProject(agents, projectId))
                         + Cardinality(OfProject(sessions, projectId))
                    ELSE 0)
    /\ UNCHANGED <<nextTask, nextAgent, inflight, nextProject, nextSession,
                 listing, clientVars>>

\* ------------------------------------------- GET /api/tasks, /api/agents
\* parseInt(searchParams.get(name) || fallback): the parameter is absent or
\* is the decimal text of value.
ParseIntOr(value, fallback) == IF value = Undefined THEN fallback ELSE value

\* The fallbacks of limit and page.
DefaultLimit == 50
DefaultPage == 1

\* Math.ceil(total / limit) for a positive limit.
Pages(total, limit) == (total + limit - 1) \div limit

\* The filter of GET /api/tasks: "if (projectId) query.projectId = projectId",
\* and the same for agentId.
TasksQuery(projectId, agentId) ==
    {x \in DOMAIN tasks :
        /\ projectId /= Undefined => tasks[x].projectId = projectId
        /\ agentId /= Undefined => tasks[x].agentId = agentId}

\* The filter of GET /api/agents.
AgentsQuery(projectId) ==
    {x \in DOMAIN agents : projectId /= Undefined => agents[x].projectId = projectId}

\* The pagination object of a list response.
Pagination(page, limit, total) ==
    [page |-> page, limit |-> limit, total |-> total, pages |-> Pages(total, limit)]

\* A list handler: a filter value that does not cast to an ObjectId makes
\* find() throw a CastError, which the catch block answers with 500.
ListGET(op, malformed, limit, page, total) ==
    /\ listing' = IF malformed THEN listing
                  ELSE Pagination(ParseIntOr(page, DefaultPage),
                                  ParseIntOr(limit, DefaultLimit), total)
    /\ last' = [Response(op, Null, Null, IF malformed THEN 500 ELSE 200, 0) EXCEPT
                    !.malformed = malformed]
    /\ UNCHANGED <<tasks, agents, nextTask, nextAgent, inflight, projectVars, clientVars>>

TasksGET(projectId, agentId, limit, page) ==
    ListGET("listTasks", projectId = BadId \/ agentId = BadId, limit, page,
            IF projectId = BadId \/ agentId = BadId THEN 0
            ELSE Cardinality(TasksQuery(projectId, agentId)))

AgentsGET(projectId, limit, page) ==
    ListGET("listAgents", projectId = BadId, limit, page,
            IF projectId = BadId THEN 0 ELSE Cardinality(AgentsQuery(projectId)))

\* ---------------------------------------------------- the catch blocks
\* The handlers whose catch block answers a ValidationError with 400.
ValidatingHandlers ==
    {"createTask", "updateTask", "createAgent", "updateAgent", "createProject",
     "createSession"}

\* The handlers modelled here, by the op of their responses.
Handlers ==
    ValidatingHandlers \cup
        {"assign", "unassign", "deleteTask", "deleteAgent", "deleteProject",
         "listTasks", "listAgents"}

\* What a statement inside a handler's try block may throw, by error.name:
\* connectDB() or a query rejecting, request.json() on a body that is no JSON,
\* a method call on a field of the wrong type, a validator rejecting a field.
Errors == {"MongoServerError", "SyntaxError", "TypeError", "ValidationError"}

\* A handler with no catch block: the error leaves the handler and no
\* NextResponse is returned.
Uncaught(op, name) == 0

\* The status of the NextResponse the catch block of handler op returns.
Caught(op, name) ==
    IF name = "ValidationError" /\ op \in ValidatingHandlers THEN 400 ELSE 500

\* A statement of handler op throws before any write was issued; the catch
\* block answers.
Throws(op, name) ==
    /\ last' = Response(op, Null, Null, Caught(op, name), 0)
    /\ UNCHANGED <<tasks, agents, nextTask, nextAgent, inflight, projectVars,
                   listing, clientVars>>

\* ------------------------------------------------------------ the requests
\* Path and query ids: a malformed string, or any well-formed ObjectId.
\* The well-formed ones are the ids handed out so far and one that never was.
TaskIdInputs == {BadId} \cup IssuedTasks \cup {nextTask}
AgentIdInputs == {BadId} \cup IssuedAgents \cup {nextAgent}
\* References in a body: absent, null, malformed, or an id the client knows.
AgentRefInputs == {Undefined, Null, BadId} \cup IssuedAgents
\* The status of a body: absent, outside the enum, or one of the enum.  No
\* handler tells "blocked" from "completed", so bodies carry only the latter.
TaskStatusInputs == {NoStatus, BadStatus, "pending", "in-progress", "completed"}
AgentStatusInputs == AgentStatus \cup {NoStatus, BadStatus}

\* The bodies of POST and PUT /api/tasks: a valid status with any reference, and
\* each invalid value once.
TaskBodies ==
    ((TaskStatusInputs \ {BadStatus}) \X ({Undefined, Null} \cup IssuedAgents))
        \cup {<<BadStatus, Undefined>>, <<NoStatus, BadId>>}

\* The projectId of these bodies is a well-formed id; no handler of a task or
\* an agent looks the project up.
CreateTask ==
    \/ TasksPOST(FALSE, nextProject, NoStatus, Undefined, {})
    \/ \E body \in TaskBodies : TasksPOST(TRUE, nextProject, body[1], body[2], {})

UpdateTask ==
    \/ \E taskId \in {BadId, nextTask} : TaskPUT(taskId, NoStatus, Undefined, FALSE, {})
    \/ \E taskId \in IssuedTasks, body \in TaskBodies :
            TaskPUT(taskId, body[1], body[2], FALSE, {})

DeleteTask == \E taskId \in TaskIdInputs : TaskDELETE(taskId)

CreateAgent ==
    \/ AgentsPOST(FALSE, nextProject, NoStatus)
    \/ \E status \in AgentStatusInputs : AgentsPOST(TRUE, nextProject, status)

UpdateAgent ==
    \/ \E agentId \in {BadId, nextAgent} : AgentPUT(agentId, NoStatus)
    \/ \E agentId \in IssuedAgents, status \in AgentStatusInputs : AgentPUT(agentId, status)

DeleteAgent == \E agentId \in AgentIdInputs : AgentDELETE(agentId)

\* The ids of /api/tasks/assign: two well-formed ids, and each invalid pair once.
AssignIds ==
    ((IssuedTasks \cup {nextTask}) \X (IssuedAgents \cup {nextAgent}))
        \cup {<<Undefined, nextAgent>>, <<nextTask, Undefined>>,
              <<BadId, nextAgent>>, <<nextTask, BadId>>}

Assign == \E ids \in AssignIds : AssignPOST(ids[1], ids[2])

Unassign == \E ids \in AssignIds : AssignDELETE(ids[1], ids[2])

Next ==
    \/ CreateTask
    \/ UpdateTask
    \/ DeleteTask
    \/ CreateAgent
    \/ UpdateAgent
    \/ DeleteAgent
    \/ Assign
    \/ Unassign

\* Requests are served one at a time, each to completion.
Spec == Init /\ [][Next]_vars

\* ------------------------------------------------ the assignment requests
NextLinks ==
    \/ CreateTask
    \/ CreateAgent
    \/ Assign
    \/ Unassign
    \/ DeleteTask
    \/ DeleteAgent

\* The requests that create documents and that make and break task/agent
\* links (Assign, Unassign, Delete Task, Delete Agent), one at a time.
SpecLinks == Init /\ [][NextLinks]_vars

\* ------------------------------------------- requests with dependencies
\* A dependencies array in a body: empty, one id the client knows, or all of
\* them.
DependencyInputs == {{}, IssuedTasks} \cup {{t} : t \in IssuedTasks}

\* POST /api/tasks with a dependencies array, which may hold the id the new
\* document is about to get.
CreateTaskWithDependencies ==
    \E dependencies \in DependencyInputs \cup {{nextTask}} :
        TasksPOST(TRUE, nextProject, NoStatus, Undefined, dependencies)

\* PUT /api/tasks/[id] with a dependencies array (an empty one included).
UpdateTaskDependencies ==
    \E taskId \in IssuedTasks, dependencies \in DependencyInputs :
        TaskPUT(taskId, NoStatus, Undefined, TRUE, dependencies)

\* POST /api/agents with the required fields only.
CreateIdleAgent == AgentsPOST(TRUE, nextProject, NoStatus)

NextDeps ==
    \/ CreateTaskWithDependencies
    \/ UpdateTaskDependencies
    \/ DeleteTask
    \/ CreateIdleAgent
    \/ Assign

\* The requests that build and break dependency lists, one at a time.
SpecDeps == Init /\ [][NextDeps]_vars

\* ------------------------------------------------ requests with projects
\* A projectId in a body or a path: an id the client was given, or a
\* well-formed one that was never handed out.
ProjectIdInputs == IssuedProjects \cup {nextProject}

CreateProject == \E hasRequired \in BOOLEAN : ProjectsPOST(hasRequired)

\* POST /api/tasks in a stored project, with no dependency or with one on a
\* stored task.
CreateProjectTask ==
    \E projectId \in DOMAIN projects,
       dependencies \in {{}} \cup {{t} : t \in DOMAIN tasks} :
        TasksPOST(TRUE, projectId, NoStatus, Undefined, dependencies)

\* POST /api/agents in a stored project.
CreateProjectAgent ==
    \E projectId \in DOMAIN projects : AgentsPOST(TRUE, projectId, NoStatus)

CreateSession ==
    \/ SessionsPOST(FALSE, nextProject, {}, {})
    \/ \E projectId \in {Undefined, BadId} \cup DOMAIN projects :
            SessionsPOST(TRUE, projectId, {}, {})

DeleteProject == \E projectId \in {BadId} \cup ProjectIdInputs : ProjectDELETE(projectId)

NextProjects ==
    \/ CreateProject
    \/ CreateProjectTask
    \/ CreateProjectAgent
    \/ CreateSession
    \/ DeleteProject

\* The requests that fill and delete projects, one at a time.
SpecProjects == Init /\ [][NextProjects]_vars

\* --------------------------------------- requests that link across projects
\* POST /api/projects with name and description.
OpenProject == ProjectsPOST(TRUE)

\* POST /api/tasks in a stored project, with or without a stored agent.
CreateStaffedTask ==
    \E projectId \in DOMAIN projects, agentId \in {Undefined} \cup DOMAIN agents :
        TasksPOST(TRUE, projectId, NoStatus, agentId, {})

\* POST /api/tasks/assign of a stored task to a stored agent.
AssignStored ==
    \E taskId \in DOMAIN tasks, agentId \in DOMAIN agents : AssignPOST(taskId, agentId)

\* PUT /api/tasks/[id] of a stored task with a stored agent.
Reassign ==
    \E taskId \in DOMAIN tasks, agentId \in DOMAIN agents :
        TaskPUT(taskId, NoStatus, agentId, FALSE, {})

NextTeams ==
    \/ OpenProject
    \/ CreateProjectAgent
    \/ CreateStaffedTask
    \/ AssignStored
    \/ Reassign

\* The requests that link tasks to agents, with several projects stored.
SpecTeams == Init /\ [][NextTeams]_vars

\* ------------------------------------------ requests that leave references
\* POST /api/tasks in a stored project, with no dependency or with all stored
\* tasks as dependencies.
CreateDependentTask ==
    \E projectId \in DOMAIN projects, dependencies \in {{}, DOMAIN tasks} :
        TasksPOST(TRUE, projectId, NoStatus, Undefined, dependencies)

\* POST /api/planning-sessions in a stored project, about the stored tasks
\* and agents.
PlanSession ==
    \E projectId \in DOMAIN projects :
        SessionsPOST(TRUE, projectId, DOMAIN tasks, DOMAIN agents)

DeleteStoredTask == \E taskId \in DOMAIN tasks : TaskDELETE(taskId)

DeleteStoredAgent == \E agentId \in DOMAIN agents : AgentDELETE(agentId)

DeleteStoredProject == \E projectId \in DOMAIN projects : ProjectDELETE(projectId)

NextRefs ==
    \/ OpenProject
    \/ CreateDependentTask
    \/ CreateProjectAgent
    \/ PlanSession
    \/ DeleteStoredTask
    \/ DeleteStoredAgent
    \/ DeleteStoredProject

\* Requests that refer to stored documents only, and deletions.
SpecRefs == Init /\ [][NextRefs]_vars

\* ------------------------------------------- requests with numeric fields
\* efficiency counts in tenths: the default 0.8 is 8, the maximum 1 is 10.
DefaultEfficiency == 8
MaxEfficiency == 10
MaxEstimatedHours == 1000

\* value || fallback
OrElse(value, fallback) ==
    IF value.type = "number" /\ value.value /= 0 THEN value ELSE fallback

\* The min and max validators of a Number path; null passes.
InRange(value, max) ==
    value.type = "number" => value.value >= 0 /\ value.value <= max

\* The numeric field of the document, the value given in the body and the
\* status of the response; a document that fails validation is not stored.
Posted(given, stored, max) ==
    IF InRange(stored, max)
    THEN [given |-> given, stored |-> stored, code |-> 201]
    ELSE [given |-> given, stored |-> Omitted, code |-> 400]

\* POST /api/agents with the required fields and efficiency.
PostAgentEfficiency(efficiency) ==
    /\ fields' = [fields EXCEPT !.efficiency =
            Posted(efficiency, OrElse(efficiency, Given(DefaultEfficiency)),
                   MaxEfficiency)]
    /\ UNCHANGED <<apiVars, statVars, storeVars, retry, race, mongo, provider>>

\* POST /api/tasks with the required fields and estimatedHours.
PostTaskHours(estimatedHours) ==
    /\ fields' = [fields EXCEPT !.estimatedHours =
            Posted(estimatedHours, OrElse(estimatedHours, JsNull), MaxEstimatedHours)]
    /\ UNCHANGED <<apiVars, statVars, storeVars, retry, race, mongo, provider>>

EfficiencyInputs == {Omitted} \cup {Given(n) : n \in -1..(MaxEfficiency + 1)}

HoursInputs ==
    {Omitted}
        \cup {Given(n) : n \in {-1, 0, 1, MaxEstimatedHours - 1, MaxEstimatedHours,
                                 MaxEstimatedHours + 1}}

NextFields ==
    \/ \E efficiency \in EfficiencyInputs : PostAgentEfficiency(efficiency)
    \/ \E estimatedHours \in HoursInputs : PostTaskHours(estimatedHours)

\* Agents and tasks posted with a numeric field.
SpecFields == Init /\ [][NextFields]_vars

\* --------------------------------------------------- requests for lists
\* The limit and page parameters of a query string: absent, or a positive
\* number.
LimitInputs == {Undefined, 1, 2, 100, 101}
PageInputs == {Undefined, 2}

\* POST /api/tasks with an agentId.
CreateTaskOfAgent ==
    \E agentId \in {Undefined} \cup IssuedAgents :
        TasksPOST(TRUE, nextProject, NoStatus, agentId, {})

ListTasks ==
    \/ \E limit \in LimitInputs, page \in PageInputs, agentId \in {Undefined} \cup IssuedAgents :
            TasksGET(Undefined, agentId, limit, page)
    \/ \E ids \in {<<BadId, Undefined>>, <<Undefined, BadId>>, <<nextProject, Undefined>>} :
            TasksGET(ids[1], ids[2], Undefined, Undefined)

ListAgents ==
    \/ \E limit \in LimitInputs, page \in PageInputs : AgentsGET(Undefined, limit, page)
    \/ \E projectId \in {BadId, nextProject} : AgentsGET(projectId, Undefined, Undefined)

NextLists ==
    \/ CreateTaskOfAgent
    \/ CreateIdleAgent
    \/ ListTasks
    \/ ListAgents

\* The requests for lists of tasks and agents, one at a time.
SpecLists == Init /\ [][NextLists]_vars

\* ------------------------------------------- requests and what they throw
\* The requests of a client that creates one document in each collection, and
\* sends every kind of request about it.
FirstProject == nextProject = 1 /\ CreateProject

FirstSession == nextSession = 1 /\ CreateSession

FirstTask ==
    /\ nextTask = 1
    /\ \E hasRequired \in BOOLEAN :
            TasksPOST(hasRequired, nextProject, NoStatus, Undefined, {})

FirstAgent == nextAgent = 1 /\ CreateIdleAgent

\* PUT /api/tasks/[id] with a status.
UpdateTaskStatus ==
    \E taskId \in TaskIdInputs, status \in {BadStatus, "in-progress"} :
        TaskPUT(taskId, status, Undefined, FALSE, {})

\* PUT /api/agents/[id] with a status.
UpdateAgentStatus ==
    \E agentId \in AgentIdInputs, status \in {BadStatus, "suspended"} :
        AgentPUT(agentId, status)

\* GET /api/tasks and GET /api/agents with no parameter but a projectId.
ListOfProject ==
    \E projectId \in {Undefined, BadId} :
        \/ TasksGET(projectId, Undefined, Undefined, Undefined)
        \/ AgentsGET(projectId, Undefined, Undefined)

\* A statement of a handler throws.
Fault == \E op \in Handlers, name \in Errors : Throws(op, name)

NextFaults ==
    \/ FirstProject
    \/ FirstSession
    \/ DeleteProject
    \/ FirstTask
    \/ UpdateTaskStatus
    \/ DeleteTask
    \/ FirstAgent
    \/ UpdateAgentStatus
    \/ DeleteAgent
    \/ Assign
    \/ Unassign
    \/ ListOfProject
    \/ Fault

\* The requests of every handler, one at a time, any of which may throw.
SpecFaults == Init /\ [][NextFaults]_vars

\* -------------------------------------------- handlers, await by await
\* The handlers of /api/tasks/assign, DELETE /api/tasks/[id] and DELETE
\* /api/agents/[id] query the database several times and are suspended at each
\* await, where the handlers of other requests run.

\* The handlers that issue their two updates together, in a Promise.all.
Parallel == {"assign", "unassign"}

\* The place of a write in the handlers that await one write after the other.
Rank(w) == CASE w = "agent" -> 1 [] w = "pull" -> 2 [] w = "task" -> 3

\* The writes of call c that the database may settle next.
Settling(c) ==
    {w \in c.todo :
        \/ c.op \in Parallel
        \/ c.op = "deleteTask" /\ \A v \in c.todo : Rank(w) <= Rank(v)
        \/ c.op = "deleteAgent" /\ \A v \in c.todo : Rank(v) <= Rank(w)}

\* The Task collection after write w of call c.
WriteTasks(c, w) ==
    CASE c.op = "assign" /\ w = "task" -> AssignTaskUpdate(tasks, c.t, c.a)
      [] c.op = "unassign" /\ w = "task" -> UnassignTaskUpdate(tasks, c.t)
      [] c.op = "deleteTask" /\ w = "pull" -> PullDependency(tasks, c.t)
      [] c.op = "deleteTask" /\ w = "task" -> FindByIdAndDelete(tasks, c.t)
      [] c.op = "deleteAgent" /\ w = "task" -> UnassignAllTasks(tasks, c.a)
      [] OTHER -> tasks

\* The Agent collection after write w of call c.
WriteAgents(c, w) ==
    CASE c.op = "assign" /\ w = "agent" -> AssignAgentUpdate(agents, c.t, c.a)
      [] c.op = "unassign" /\ w = "agent" -> UnassignAgentUpdate(agents, c.a)
      [] c.op = "deleteTask" /\ w = "agent" ->
            TaskDELETEAgentUpdate(agents, [agentId |-> c.seen])
      [] c.op = "deleteAgent" /\ w = "agent" -> FindByIdAndDelete(agents, c.a)
      [] OTHER -> agents

\* A request arrives and its handler runs up to its first query.
Start(s, op, taskId, agentId) ==
    /\ inflight[s] = NoCall
    /\ \A r \in Slots : r < s => inflight[r] /= NoCall
    /\ inflight' = [inflight EXCEPT ![s] =
            Call(op, taskId, agentId,
                 IF op = "deleteAgent" THEN "findAgent" ELSE "findTask",
                 Null, {}, {}, FALSE, 0)]
    /\ UNCHANGED <<tasks, agents, nextTask, nextAgent, last, projectVars, listing, clientVars>>

\* await Task.findById(taskId) returns; the handler runs to its next await.
FindTask(s) ==
    LET c == inflight[s] IN
    /\ c.pc = "findTask"
    /\ inflight' = [inflight EXCEPT ![s] =
            IF c.t \notin DOMAIN tasks
            THEN [c EXCEPT !.pc = "done", !.code = 404]
            ELSE CASE c.op = "assign" ->
                        [c EXCEPT !.pc = "findAgent", !.seen = tasks[c.t].agentId]
                   [] c.op = "unassign" ->
                        IF tasks[c.t].agentId /= c.a
                        THEN [c EXCEPT !.pc = "done", !.code = 400]
                        ELSE [c EXCEPT !.pc = "write", !.seen = tasks[c.t].agentId,
                                       !.todo = {"task", "agent"}]
                   [] c.op = "deleteTask" ->
                        [c EXCEPT !.pc = "write", !.seen = tasks[c.t].agentId,
                                  !.a = tasks[c.t].agentId,
                                  !.todo = IF tasks[c.t].agentId /= Null
                                           THEN {"agent", "pull", "task"}
                                           ELSE {"pull", "task"}]]
    /\ UNCHANGED <<tasks, agents, nextTask, nextAgent, last, projectVars, listing, clientVars>>

\* await Agent.findById(agentId) returns; the handler runs to its next await.
FindAgent(s) ==
    LET c == inflight[s] IN
    /\ c.pc = "findAgent"
    /\ inflight' = [inflight EXCEPT ![s] =
            IF c.a \notin DOMAIN agents
            THEN [c EXCEPT !.pc = "done", !.code = 404]
            ELSE IF c.op = "deleteAgent"
            THEN [c EXCEPT !.pc = "write", !.seen = agents[c.a].currentTaskId,
                           !.todo = {"task", "agent"}]
            ELSE IF ~AgentAvailable(agents[c.a]) \/ TaskAssigned([agentId |-> c.seen])
            THEN [c EXCEPT !.pc = "done", !.code = 400]
            ELSE [c EXCEPT !.pc = "write", !.todo = {"task", "agent"}]]
    /\ UNCHANGED <<tasks, agents, nextTask, nextAgent, last, projectVars, listing, clientVars>>

\* The call once write w has settled; the handler answers 200 when all its
\* writes were applied and 500 when one was rejected.
Settled(c, todo, done, failed) ==
    [c EXCEPT !.todo = todo, !.done = done, !.failed = failed,
              !.pc = IF todo = {} THEN "done" ELSE "write",
              !.code = IF failed THEN 500 ELSE IF todo = {} THEN 200 ELSE 0]

\* The database applies one of the writes the handler awaits.
Write(s, w) ==
    LET c == inflight[s] IN
    /\ c.pc = "write" /\ w \in Settling(c)
    /\ tasks' = WriteTasks(c, w)
    /\ agents' = WriteAgents(c, w)
    /\ inflight' = [inflight EXCEPT ![s] =
            Settled(c, c.todo \ {w}, c.done \cup {w}, c.failed)]
    /\ UNCHANGED <<nextTask, nextAgent, last, projectVars, listing, clientVars>>

\* The database rejects one of the writes the handler awaits: the catch block
\* answers 500.  Writes awaited later are never issued; the other write of a
\* Promise.all was issued already and still settles.
Reject(s, w) ==
    LET c == inflight[s] IN
    /\ c.pc = "write" /\ w \in Settling(c)
    /\ inflight' = [inflight EXCEPT ![s] =
            Settled(c, IF c.op \in Parallel THEN c.todo \ {w} ELSE {}, c.done, TRUE)]
    /\ UNCHANGED <<tasks, agents, nextTask, nextAgent, last, projectVars, listing, clientVars>>

\* The response (c.code) has been sent and every write has settled: the call
\* is over.
Finish(s) ==
    LET c == inflight[s] IN
    /\ c.pc = "done"
    /\ inflight' = [inflight EXCEPT ![s] = NoCall]
    /\ UNCHANGED <<tasks, agents, nextTask, nextAgent, last, projectVars, listing, clientVars>>

Writes == {"task", "agent", "pull"}

StartAssign ==
    \E s \in Slots, t \in DOMAIN tasks, a \in DOMAIN agents : Start(s, "assign", t, a)
StartUnassign ==
    \E s \in Slots, t \in DOMAIN tasks, a \in DOMAIN agents : Start(s, "unassign", t, a)
StartDeleteTask == \E s \in Slots, t \in DOMAIN tasks : Start(s, "deleteTask", t, Null)
StartDeleteAgent == \E s \in Slots, a \in DOMAIN agents : Start(s, "deleteAgent", Null, a)

NextAsync ==
    \/ TasksPOST(TRUE, nextProject, NoStatus, Undefined, {})
    \/ AgentsPOST(TRUE, nextProject, NoStatus)
    \/ StartAssign
    \/ StartUnassign
    \/ StartDeleteTask
    \/ StartDeleteAgent
    \/ \E s \in Slots : FindTask(s)
    \/ \E s \in Slots : FindAgent(s)
    \/ \E s \in Slots, w \in Writes : Write(s, w)
    \/ \E s \in Slots, w \in Writes : Reject(s, w)
    \/ \E s \in Slots : Finish(s)

\* Requests whose handlers interleave at their awaits.
SpecAsync == Init /\ [][NextAsync]_vars

\* ============================================================== statistics
\* A number of the statistics: the quotient num / den in lowest terms.  Within
\* the bounds the double the code computes is 0 or 100 exactly when the
\* quotient is.
RECURSIVE GCD(_, _)
GCD(a, b) == IF b = 0 THEN a ELSE GCD(b, a % b)

Quotient(num, den) ==
    LET g == GCD(num, den) IN [num |-> num \div g, den |-> den \div g]

Number(n) == Quotient(n, 1)

\* agents.reduce((sum, agent) => sum + agent.efficiency, 0), in tenths.
RECURSIVE SumEfficiency(_)
SumEfficiency(ags) ==
    IF ags = <<>> THEN 0 ELSE Head(ags).efficiency + SumEfficiency(Tail(ags))

IsCompleted(task) == task.status = "completed"

\* tasks.filter(t => t.status === 'completed').length
CompletedTasks(ts) == Len(SelectSeq(ts, IsCompleted))

\* CompletionRate that reports an empty task list as done.
CompletionRateEmptyDone(ts) ==
    IF Len(ts) > 0
    THEN Quotient(CompletedTasks(ts) * 100, Len(ts))
    ELSE Number(100)

\* total > 0 ? (completed / total) * 100 : 0
CompletionRate(ts) ==
    IF Len(ts) > 0
    THEN Quotient(CompletedTasks(ts) * 100, Len(ts))
    ELSE Number(0)

\* Math.round of a non-negative quotient.
Round(q) == (2 * q.num + q.den) \div (2 * q.den)

\* agents.length > 0 ? sum / agents.length : 0; efficiencies are in tenths.
AverageEfficiency(ags) ==
    IF Len(ags) > 0
    THEN Quotient(SumEfficiency(ags), 10 * Len(ags))
    ELSE Number(0)

\* daysSinceCreated <= timeframe, for the selected timeframe.
WithinTimeframe(task, selectedTimeframe) ==
    CASE selectedTimeframe = "week" -> task.age <= 7
      [] selectedTimeframe = "month" -> task.age <= 30
      [] OTHER -> TRUE

\* tasks.filter(task => daysSinceCreated <= timeframe)
FilteredTasks(ts, selectedTimeframe) ==
    SelectSeq(ts, LAMBDA task : WithinTimeframe(task, selectedTimeframe))

\* The longest task list and agent list a computation is given.
MaxStatTasks == 2
MaxStatAgents == 2

\* Days since a task was created: within a week, within a month, older.
TaskAges == {1, 10, 40}
\* Agent.efficiency in tenths, between 0 and 1.
Efficiencies == {0, 8, 10}

SeqsUpTo(S, n) == UNION {[1..k -> S] : k \in 0..n}

StatTasks == [status : TaskStatus, age : TaskAges]
StatAgents == [efficiency : Efficiencies]

\* A project's tasks and agents are handed to the statistics functions.
InitStats ==
    /\ InitApi
    /\ InitStore
    /\ retry = NoRetry
    /\ race = NoRace
    /\ mongo = Loaded
    /\ provider = Mounted
    /\ fields = [efficiency |-> NothingPosted, estimatedHours |-> NothingPosted]
    /\ statsInput \in [tasks : SeqsUpTo(StatTasks, MaxStatTasks),
                        agents : SeqsUpTo(StatAgents, MaxStatAgents)]
    /\ metrics = NoMetrics

\* GET /api/projects/[id]/stats: taskStats and agentStats.
StatsGET ==
    /\ metrics' = [fn |-> "statsGET",
                   completionRate |-> CompletionRate(statsInput.tasks),
                   averageEfficiency |-> AverageEfficiency(statsInput.agents)]
    /\ UNCHANGED <<apiVars, statsInput, storeVars, retry, libVars>>

\* getProjectStats(project) of the project list.
GetProjectStats ==
    /\ metrics' = [fn |-> "getProjectStats",
                   completionRate |->
                        Number(Round(CompletionRate(statsInput.tasks)))]
    /\ UNCHANGED <<apiVars, statsInput, storeVars, retry, libVars>>

\* calculateMetrics() of the progress tracker.
CalculateMetrics(selectedTimeframe) ==
    /\ metrics' = [fn |-> "calculateMetrics",
                   selectedTimeframe |-> selectedTimeframe,
                   completionRate |->
                        CompletionRate(FilteredTasks(statsInput.tasks, selectedTimeframe)),
                   averageEfficiency |-> AverageEfficiency(statsInput.agents)]
    /\ UNCHANGED <<apiVars, statsInput, storeVars, retry, libVars>>

NextStats ==
    \/ StatsGET
    \/ GetProjectStats
    \/ \E selectedTimeframe \in {"week", "month", "all"} :
            CalculateMetrics(selectedTimeframe)

\* The statistics functions applied to task and agent lists.
SpecStats == InitStats /\ [][NextStats]_vars

\* ============================================================ client store
\* Identifiers generateId may hand out in one run.
MaxStoreIds == 5

\* generateId(): the n-th identifier after the current one.
GenerateId(n) == idCounter + n

\* state.projects.find(p => p.id !== projectId) || null
FindOther(projs, projectId) ==
    LET others == SelectSeq(projs, LAMBDA q : q.id /= projectId) IN
    IF others = <<>> THEN NullProject ELSE Head(others)

\* { ...project, ...updates }: the updates of a dialog carry a name.
Merge(project, name) == [project EXCEPT !.name = name]

\* appReducer(state, action)
AppReducer(state, action) ==
    CASE action.type = "SET_LOADING" -> [state EXCEPT !.loading = action.flag]
      [] action.type = "SET_ERROR" -> [state EXCEPT !.error = action.error]
      [] action.type = "LOAD_PROJECTS" ->
            [state EXCEPT !.projects = action.projects]
      [] action.type = "CREATE_PROJECT" ->
            [state EXCEPT !.projects = Append(@, action.project),
                          !.currentProject = action.project]
      [] action.type = "SET_CURRENT_PROJECT" ->
            [state EXCEPT !.currentProject = action.project]
      [] action.type = "UPDATE_PROJECT" ->
            [state EXCEPT
                !.projects = [i \in DOMAIN @ |->
                                IF @[i].id = action.projectId
                                THEN Merge(@[i], action.name) ELSE @[i]],
                !.currentProject = IF @.id = action.projectId
                                   THEN Merge(@, action.name) ELSE @]
      [] action.type = "DELETE_PROJECT" ->
            [state EXCEPT
                !.projects = SelectSeq(@, LAMBDA q : q.id /= action.projectId),
                !.currentProject = IF @.id = action.projectId
                                   THEN FindOther(state.projects, action.projectId)
                                   ELSE @]
      [] action.type = "LOAD_PLANNING_SESSIONS" ->
            [state EXCEPT !.planningSessions = action.sessions]
      [] action.type = "CREATE_PLANNING_SESSION" ->
            [state EXCEPT !.planningSessions = Append(@, action.session),
                          !.currentSession = action.session]
      [] action.type = "SET_CURRENT_SESSION" ->
            [state EXCEPT !.currentSession = action.session]
      [] OTHER -> state

\* dispatch(action)
Dispatch(action) ==
    /\ store' = AppReducer(store, action)
    /\ dispatched' = action
    /\ UNCHANGED <<apiVars, statVars, retry, libVars>>

\* The sample project of the Dashboard's effect, with one of its tasks and
\* one of its agents: created whenever there is no current project.
SampleProject ==
    [id |-> GenerateId(2), name |-> "Sample Project",
     tasks |-> (GenerateId(1) :> [status |-> "pending", agentId |-> Null]),
     agents |-> (GenerateId(3) :> [status |-> "idle"])]

InitializeSampleData ==
    /\ store.currentProject = NullProject
    /\ GenerateId(3) <= MaxStoreIds
    /\ idCounter' = GenerateId(3)
    /\ Dispatch(AppAction("CREATE_PROJECT", SampleProject, Null, Null, Null, ""))

\* handleCreateProject of the project list, then handleProjectCreate.
HandleProjectCreate ==
    /\ GenerateId(1) <= MaxStoreIds
    /\ idCounter' = GenerateId(1)
    /\ Dispatch(AppAction("CREATE_PROJECT",
            [id |-> GenerateId(1), name |-> "new", tasks |-> <<>>, agents |-> <<>>],
            Null, Null, Null, ""))

HandleProjectSelect ==
    /\ \E i \in DOMAIN store.projects :
            Dispatch(AppAction("SET_CURRENT_PROJECT", store.projects[i], Null, Null, Null, ""))
    /\ UNCHANGED idCounter

HandleProjectUpdate ==
    /\ \E i \in DOMAIN store.projects :
            Dispatch([AppAction("UPDATE_PROJECT", NullProject, store.projects[i].id,
                                Null, Null, "") EXCEPT !.name = "renamed"])
    /\ UNCHANGED idCounter

HandleProjectDelete ==
    /\ \E i \in DOMAIN store.projects :
            Dispatch(AppAction("DELETE_PROJECT", NullProject, store.projects[i].id,
                               Null, Null, ""))
    /\ UNCHANGED idCounter

\* The tasks and the agents of the current project, as the Dashboard reads them.
CurrentTasks == DOMAIN store.currentProject.tasks
CurrentAgents == DOMAIN store.currentProject.agents

\* A handler of the Dashboard dispatches about the current project, if any.
DispatchCurrent(type, id, agentId, status) ==
    /\ store.currentProject /= NullProject
    /\ Dispatch(AppAction(type, NullProject, store.currentProject.id, id, agentId, status))

\* handleSaveTask: the task dialog in mode create (a new id) or edit.
HandleSaveTask ==
    /\ \/ /\ GenerateId(1) <= MaxStoreIds
          /\ idCounter' = GenerateId(1)
          /\ DispatchCurrent("CREATE_TASK", GenerateId(1), Null, "pending")
       \/ /\ UNCHANGED idCounter
          /\ \E taskId \in CurrentTasks :
                DispatchCurrent("UPDATE_TASK", taskId, Null, "completed")

HandleDeleteTask ==
    /\ \E taskId \in CurrentTasks : DispatchCurrent("DELETE_TASK", taskId, Null, "")
    /\ UNCHANGED idCounter

\* handleSaveAgent: the agent dialog in mode create (a new id) or edit.
HandleSaveAgent ==
    /\ \/ /\ GenerateId(1) <= MaxStoreIds
          /\ idCounter' = GenerateId(1)
          /\ DispatchCurrent("CREATE_AGENT", GenerateId(1), Null, "idle")
       \/ /\ UNCHANGED idCounter
          /\ \E agentId \in CurrentAgents :
                DispatchCurrent("UPDATE_AGENT", agentId, Null, "busy")

HandleDeleteAgent ==
    /\ \E agentId \in CurrentAgents : DispatchCurrent("DELETE_AGENT", agentId, Null, "")
    /\ UNCHANGED idCounter

HandleSuspendAgent ==
    /\ \E agentId \in CurrentAgents : DispatchCurrent("SUSPEND_AGENT", agentId, Null, "")
    /\ UNCHANGED idCounter

HandleAssignTaskToAgent ==
    /\ \E taskId \in CurrentTasks, agentId \in CurrentAgents :
            DispatchCurrent("ASSIGN_TASK", taskId, agentId, "")
    /\ UNCHANGED idCounter

NextStore ==
    \/ InitializeSampleData
    \/ HandleProjectCreate
    \/ HandleProjectSelect
    \/ HandleProjectUpdate
    \/ HandleProjectDelete
    \/ HandleSaveTask
    \/ HandleDeleteTask
    \/ HandleSaveAgent
    \/ HandleDeleteAgent
    \/ HandleSuspendAgent
    \/ HandleAssignTaskToAgent

\* The Dashboard's handlers dispatching to the AppProvider's reducer.
SpecStore == Init /\ [][NextStore]_vars

\* ============================================================== AppProvider
\* The API functions of the AppProvider.
ApiFunctions ==
    {"loadProjects", "createProject", "updateProject", "deleteProject",
     "loadPlanningSessions", "createPlanningSession"}

\* The state after the actions of a sequence have been dispatched in order.
RECURSIVE Reduce(_, _)
Reduce(state, actions) ==
    IF actions = <<>> THEN state
    ELSE Reduce(AppReducer(state, Head(actions)), Tail(actions))

\* The dispatches of one synchronous stretch of an API function.
DispatchAll(actions) ==
    /\ store' = Reduce(store, actions)
    /\ dispatched' = actions[Len(actions)]
    /\ UNCHANGED <<apiVars, statVars, idCounter, retry, race, mongo, fields>>

SetLoading(flag) == [NoAction EXCEPT !.type = "SET_LOADING", !.flag = flag]
SetError(error) == [NoAction EXCEPT !.type = "SET_ERROR", !.error = error]

\* The n-th id of the server; the ids of generateId are the positive numbers.
ServerId(n) == -(n + 2)

\* The project the server stores under its n-th id, as the API returns it.
ServerProject(n) == [id |-> ServerId(n), name |-> "stored", tasks |-> <<>>, agents |-> <<>>]

\* The projects of the server in the order of their ids: response.data of
\* projectApi.getAll().
RECURSIVE ServerProjects(_, _)
ServerProjects(stored, n) ==
    IF n = 0 THEN <<>>
    ELSE IF n \in stored THEN Append(ServerProjects(stored, n - 1), ServerProject(n))
    ELSE ServerProjects(stored, n - 1)

\* The ids of the planning sessions of the server: response.data of
\* planningSessionApi.getAll().
ServerSessions(n) == [i \in 1..n |-> i]

\* An API function is called: it dispatches SET_LOADING true and SET_ERROR
\* null and awaits the response of the server.  id is the project meant.
ApiStart(slot, fn, id) ==
    /\ provider.calls[slot].fn = "none"
    /\ provider' = [provider EXCEPT !.calls[slot] = [fn |-> fn, id |-> id]]
    /\ DispatchAll(<<SetLoading(TRUE), SetError(NoError)>>)

\* What the server does on the request of a call, if it succeeds.
ServerEffect(call) ==
    CASE call.fn = "createProject" ->
            [provider EXCEPT !.issued = @ + 1, !.projects = @ \cup {provider.issued + 1}]
      [] call.fn = "deleteProject" -> [provider EXCEPT !.projects = @ \ {call.id}]
      [] call.fn = "createPlanningSession" -> [provider EXCEPT !.sessions = @ + 1]
      [] OTHER -> provider

\* The server can answer the call with success.
ServerAccepts(call) ==
    CASE call.fn = "createProject" -> provider.issued < MaxServerProjects
      [] call.fn \in {"updateProject", "deleteProject"} -> call.id \in provider.projects
      [] call.fn = "createPlanningSession" -> provider.sessions < MaxServerSessions
      [] OTHER -> TRUE

\* The action an API function dispatches on a response with success.
OnSuccess(call) ==
    CASE call.fn = "loadProjects" ->
            [NoAction EXCEPT !.type = "LOAD_PROJECTS",
                !.projects = ServerProjects(provider.projects, provider.issued)]
      [] call.fn = "createProject" ->
            [NoAction EXCEPT !.type = "CREATE_PROJECT",
                !.project = ServerProject(provider.issued + 1)]
      [] call.fn = "updateProject" ->
            [NoAction EXCEPT !.type = "UPDATE_PROJECT", !.projectId = ServerId(call.id),
                !.name = "stored"]
      [] call.fn = "deleteProject" ->
            [NoAction EXCEPT !.type = "DELETE_PROJECT", !.projectId = ServerId(call.id)]
      [] call.fn = "loadPlanningSessions" ->
            [NoAction EXCEPT !.type = "LOAD_PLANNING_SESSIONS",
                !.sessions = ServerSessions(provider.sessions)]
      [] call.fn = "createPlanningSession" ->
            [NoAction EXCEPT !.type = "CREATE_PLANNING_SESSION",
                !.session = provider.sessions + 1]

\* The response of a call arrives: the function dispatches its action or
\* SET_ERROR, and SET_LOADING false in its finally block.
ApiFinish(slot, success) ==
    LET call == provider.calls[slot]
        done == [provider EXCEPT !.calls[slot] = [fn |-> "none", id |-> Null]]
    IN
    /\ call.fn /= "none"
    /\ IF success
       THEN /\ ServerAccepts(call)
            /\ provider' = [ServerEffect(call) EXCEPT
                                !.calls[slot] = [fn |-> "none", id |-> Null]]
            /\ DispatchAll(<<OnSuccess(call), SetLoading(FALSE)>>)
       ELSE /\ provider' = done
            /\ DispatchAll(<<SetError("Failed"), SetLoading(FALSE)>>)

\* A component calls an API function, about a project the server has issued.
CallApi ==
    \E slot \in 1..MaxCalls, fn \in ApiFunctions :
        IF fn \in {"updateProject", "deleteProject"}
        THEN \E id \in 1..provider.issued : ApiStart(slot, fn, id)
        ELSE ApiStart(slot, fn, Null)

Respond == \E slot \in 1..MaxCalls, success \in BOOLEAN : ApiFinish(slot, success)

NextProvider ==
    \/ InitializeSampleData
    \/ HandleProjectSelect
    \/ CallApi
    \/ Respond

\* The AppProvider's API functions beside the Dashboard's sample data effect
\* and project selection.
SpecProvider == Init /\ [][NextProvider]_vars

\* =========================================================== retryOperation
\* The largest maxRetries a call is given.
MaxRetries == 4

\* How an invocation of operation may settle: with a value, or with an
\* ApiError of some statusCode, or with an Error that is no ApiError.
Outcomes ==
    {[kind |-> "value"], [kind |-> "Error"]}
        \cup {[kind |-> "ApiError", statusCode |-> c] : c \in {400, 499, 500}}

\* IsClientError that holds of no error: every failure is retried.
IsClientErrorNever(error) == FALSE

\* error instanceof ApiError && error.statusCode >= 400 && error.statusCode < 500
IsClientError(error) ==
    error.kind = "ApiError" /\ error.statusCode >= 400 /\ error.statusCode < 500

\* retryOperation is called.
InitRetry ==
    /\ InitApi
    /\ InitStore
    /\ statsInput = [tasks |-> <<>>, agents |-> <<>>]
    /\ metrics = NoMetrics
    /\ retry \in {RetryCall(maxRetries) : maxRetries \in 0..MaxRetries}
    /\ race = NoRace
    /\ mongo = Loaded
    /\ provider = Mounted
    /\ fields = [efficiency |-> NothingPosted, estimatedHours |-> NothingPosted]

\* for (...; attempt <= maxRetries; ...): operation is invoked, or the loop is
\* left and lastError is thrown.
RetryLoop ==
    /\ retry.pc = "loop"
    /\ retry' = IF retry.attempt <= retry.maxRetries
                THEN [retry EXCEPT !.pc = "await"]
                ELSE [retry EXCEPT !.pc = "done",
                                   !.result = [state |-> "rejected", with |-> retry.lastError]]
    /\ UNCHANGED <<apiVars, statVars, storeVars, libVars>>

\* await operation() settles: the value is returned, or the catch block runs
\* up to its break or to the timer.  The outcome is tagged with the attempt.
RetrySettle(outcome) ==
    LET settled == outcome @@ [attempt |-> retry.attempt] IN
    /\ retry.pc = "await"
    /\ retry' =
            IF outcome.kind = "value"
            THEN [retry EXCEPT !.pc = "done", !.log = Append(@, settled),
                               !.result = [state |-> "resolved", with |-> settled]]
            ELSE IF retry.attempt = retry.maxRetries \/ IsClientError(outcome)
            THEN [retry EXCEPT !.pc = "done", !.log = Append(@, settled),
                               !.lastError = settled,
                               !.result = [state |-> "rejected", with |-> settled]]
            ELSE [retry EXCEPT !.pc = "sleep", !.log = Append(@, settled),
                               !.lastError = settled]
    /\ UNCHANGED <<apiVars, statVars, storeVars, libVars>>

\* The timer of setTimeout(resolve, delay * attempt) fires; attempt++.
RetryWake ==
    /\ retry.pc = "sleep"
    /\ retry' = [retry EXCEPT !.pc = "loop", !.attempt = @ + 1]
    /\ UNCHANGED <<apiVars, statVars, storeVars, libVars>>

NextRetry ==
    \/ RetryLoop
    \/ \E outcome \in Outcomes : RetrySettle(outcome)
    \/ RetryWake

\* A call of retryOperation whose operation settles whenever it is invoked
\* and whose timers fire.
SpecRetry == InitRetry /\ [][NextRetry]_vars /\ WF_vars(NextRetry)

\* ============================================================== withTimeout
\* The largest timeoutMs a call is given, and the time the clock stops at.
MaxTimeout == 4
MaxTime == 5

\* How the wrapped promise may settle: with a value, or with an error, which
\* may itself be an ApiError of status 408.
Settlements ==
    {[state |-> "resolved", from |-> "promise"]}
        \cup {[state |-> "rejected", from |-> "promise", statusCode |-> c] :
                    c \in {408, 500}}

\* reject(new ApiError('Request timeout', 408, 'TIMEOUT'))
TimeoutError ==
    [state |-> "rejected", from |-> "timer", statusCode |-> 408, code |-> "TIMEOUT"]

\* Promise.race that follows its last input to settle.
RaceLast(result, settlement) == settlement

\* Promise.race([...]): the returned promise follows the first input to
\* settle; resolving or rejecting a settled promise does nothing.
Race(result, settlement) ==
    IF result.state = "pending" THEN settlement ELSE result

\* withTimeout is called on a promise that may have settled already.
InitTimeout ==
    /\ InitApi
    /\ InitStore
    /\ statsInput = [tasks |-> <<>>, agents |-> <<>>]
    /\ metrics = NoMetrics
    /\ retry = NoRetry
    /\ mongo = Loaded
    /\ provider = Mounted
    /\ fields = [efficiency |-> NothingPosted, estimatedHours |-> NothingPosted]
    /\ race \in {[RaceCall(promise, timeoutMs) EXCEPT
                        !.settlements = IF promise = Pending THEN 0 ELSE 1] :
                    promise \in {Pending} \cup Settlements,
                    timeoutMs \in 1..MaxTimeout}

\* The result of Promise.race after one of its inputs settled with settlement.
RaceSettle(r, settlement) ==
    [r EXCEPT !.result = Race(@, settlement),
              !.settlements = IF r.result.state = "pending" THEN @ + 1 ELSE @]

\* The wrapped promise settles.
PromiseSettles(settlement) ==
    /\ race.timer /= "idle"
    /\ race.promise = Pending
    /\ race' = RaceSettle([race EXCEPT !.promise = settlement], settlement)
    /\ UNCHANGED <<apiVars, statVars, storeVars, retry, mongo, provider, fields>>

\* A millisecond passes; the timer's callback runs when timeoutMs have.
Tick ==
    /\ race.timer /= "idle"
    /\ race.now < MaxTime
    /\ race' = IF race.timer = "pending" /\ race.now + 1 = race.timeoutMs
               THEN RaceSettle([race EXCEPT !.now = @ + 1, !.timer = "fired"],
                               TimeoutError)
               ELSE [race EXCEPT !.now = @ + 1]
    /\ UNCHANGED <<apiVars, statVars, storeVars, retry, mongo, provider, fields>>

NextTimeout ==
    \/ \E settlement \in Settlements : PromiseSettles(settlement)
    \/ Tick

\* A call of withTimeout; time passes, the wrapped promise may never settle.
SpecTimeout == InitTimeout /\ [][NextTimeout]_vars /\ WF_vars(Tick)

\* ================================================================ connectDB
\* The largest number of mongoose.connect attempts.
MaxAttempts == 3

\* A connectDB that calls mongoose.connect whatever cached.promise is.
NeedsConnectAlways(cached) == TRUE

\* if (!cached.promise)
NeedsConnect(cached) == cached.promise = Null

\* An attempt of mongoose.connect has not settled.
InFlight(m) == \E i \in DOMAIN m.attempts : m.attempts[i] = "pending"

\* connectDB(), caller c, up to its return or its await.  It runs as a task
\* of its own, so no microtask is queued.  An awaited promise that has settled
\* queues the continuation at once.
ConnectDB(c) ==
    LET connect == NeedsConnect(mongo.cached)
        attempts == IF connect THEN Append(mongo.attempts, "pending")
                    ELSE mongo.attempts
        promise == IF connect THEN Len(attempts) ELSE mongo.cached.promise
    IN
    /\ mongo.queue = <<>>
    /\ mongo.callers[c].pc /= "await"
    /\ IF mongo.cached.conn /= Null
       THEN mongo' = [mongo EXCEPT
                !.callers[c] = [pc |-> "returned", on |-> Null,
                                got |-> mongo.cached.conn]]
       ELSE /\ connect => Len(mongo.attempts) < MaxAttempts
            /\ mongo' = [mongo EXCEPT
                    !.attempts = attempts,
                    !.cached.promise = promise,
                    !.callers[c] = [pc |-> "await", on |-> promise, got |-> Null],
                    !.waiting = IF attempts[promise] = "pending"
                                THEN Append(@, c) ELSE @,
                    !.queue = IF attempts[promise] = "pending"
                              THEN @ ELSE Append(@, c)]
    /\ UNCHANGED <<apiVars, statVars, storeVars, retry, race, provider, fields>>

\* The attempt of mongoose.connect in flight settles; the continuations of
\* the callers awaiting it are queued in the order they began to wait.
ConnectSettles(state) ==
    /\ mongo.queue = <<>>
    /\ \E i \in DOMAIN mongo.attempts :
        /\ mongo.attempts[i] = "pending"
        /\ mongo' = [mongo EXCEPT
                !.attempts[i] = state,
                !.queue = SelectSeq(mongo.waiting,
                                    LAMBDA c : mongo.callers[c].on = i),
                !.waiting = SelectSeq(mongo.waiting,
                                      LAMBDA c : mongo.callers[c].on /= i)]
    /\ UNCHANGED <<apiVars, statVars, storeVars, retry, race, provider, fields>>

\* The continuation at the head of the microtask queue runs: cached.conn =
\* await cached.promise and return, or the catch block.
ConnectContinue ==
    /\ mongo.queue /= <<>>
    /\ LET c == Head(mongo.queue)
           i == mongo.callers[c].on
       IN mongo' = IF mongo.attempts[i] = "resolved"
                   THEN [mongo EXCEPT
                            !.queue = Tail(@),
                            !.cached.conn = i,
                            !.callers[c] = [pc |-> "returned", on |-> i, got |-> i]]
                   ELSE [mongo EXCEPT
                            !.queue = Tail(@),
                            !.cached.promise = Null,
                            !.callers[c] = [pc |-> "thrown", on |-> i, got |-> Null]]
    /\ UNCHANGED <<apiVars, statVars, storeVars, retry, race, provider, fields>>

NextConnect ==
    \/ \E c \in 1..MaxCallers : ConnectDB(c)
    \/ \E state \in {"resolved", "rejected"} : ConnectSettles(state)
    \/ ConnectContinue

\* Concurrent callers of connectDB.
SpecConnect == Init /\ [][NextConnect]_vars

\* ================================================================== claims
\* The step is a call of operation op that was answered with status code.
Answered(op, code) == last'.op = op /\ last'.code = code

\* Every document of coll other than id is stored unchanged.
OthersUnchanged(coll, collNext, id) ==
    /\ DOMAIN collNext = DOMAIN coll
    /\ \A x \in DOMAIN coll \ {id} : collNext[x] = coll[x]

\* C1: every stored task with a non-null agentId references a stored agent whose
\* currentTaskId is that task and whose status is "working".
C1_PairingInvariant ==
    \A t \in DOMAIN tasks :
        tasks[t].agentId /= Null =>
            /\ tasks[t].agentId \in DOMAIN agents
            /\ agents[tasks[t].agentId].currentTaskId = t
            /\ agents[tasks[t].agentId].status = "working"

\* C2: Assign succeeds only for an idle agent; after a successful Assign(T1, A1)
\* a following Assign(T2, A1) for another unassigned stored task T2 does not
\* succeed, leaves T2 unassigned and leaves A1.currentTaskId = T1.
C2_AssignOnlyIdle ==
    [][/\ Answered("assign", 200) => agents[last'.a].status = "idle"
       /\ ( /\ last.op = "assign" /\ last.code = 200
            /\ last'.op = "assign" /\ last'.a = last.a /\ last'.t /= last.t
            /\ last'.t \in DOMAIN tasks /\ tasks[last'.t].agentId = Null )
          => /\ last'.code = 409
             /\ tasks'[last'.t].agentId = Null
             /\ agents'[last.a].currentTaskId = last.t]_vars

\* The step is Assign(T, A) on a stored task and a stored agent with the agent
\* busy or suspended, or the task already assigned.
AssignRefusedCase ==
    /\ last'.op = "assign"
    /\ last'.t \in DOMAIN tasks /\ last'.a \in DOMAIN agents
    /\ \/ agents[last'.a].status \in {"busy", "suspended"}
       \/ tasks[last'.t].agentId /= Null

C4_AssignEffect ==
    [][Answered("assign", 200) =>
        LET t == last'.t
            a == last'.a
        IN  /\ t \in DOMAIN tasks /\ a \in DOMAIN agents
            /\ tasks'[t] = [tasks[t] EXCEPT !.agentId = a, !.status = "in-progress"]
            /\ agents'[a] = [agents[a] EXCEPT !.currentTaskId = t, !.status = "working"]
            /\ OthersUnchanged(tasks, tasks', t)
            /\ OthersUnchanged(agents, agents', a)]_vars

\* An Assign has succeeded while another task and another agent were stored.
C4_Witness ==
    /\ last.op = "assign" /\ last.code = 200
    /\ tasks[last.t].agentId = last.a /\ tasks[last.t].status = "in-progress"
    /\ agents[last.a].currentTaskId = last.t /\ agents[last.a].status = "working"
    /\ Cardinality(DOMAIN tasks) + Cardinality(DOMAIN agents) = 3

\* C5: Unassign(T, A) on a stored task T whose agentId is not A (null included)
\* is answered 400 and changes neither collection.
C5_UnassignMismatch ==
    [][( /\ last'.op = "unassign"
         /\ last'.t \in DOMAIN tasks /\ last'.a >= 1
         /\ tasks[last'.t].agentId /= last'.a )
       => /\ last'.code = 400
          /\ tasks' = tasks
          /\ agents' = agents]_vars

\* An Unassign naming a stored agent other than the task's has been refused.
C5_Witness ==
    /\ last.op = "unassign" /\ last.code = 400
    /\ last.t \in DOMAIN tasks /\ last.a \in DOMAIN agents
    /\ tasks[last.t].agentId \in DOMAIN agents
    /\ tasks[last.t].agentId /= last.a

\* C6: a successful Unassign(taskId, agentId) leaves the task with no agent and
\* status "pending" and the agent with no current task and status "idle"; and an
\* Unassign(T, A) that follows a successful Assign(T, A) succeeds, so both are
\* back to no link, "pending" and "idle".
C6_UnassignEffect ==
    [][/\ Answered("unassign", 200) =>
            LET t == last'.t
                a == last'.a
            IN  /\ tasks'[t] = [tasks[t] EXCEPT !.agentId = Null, !.status = "pending"]
                /\ OthersUnchanged(tasks, tasks', t)
                /\ a \in DOMAIN agents =>
                      agents'[a] = [agents[a] EXCEPT !.currentTaskId = Null,
                                                     !.status = "idle"]
                /\ OthersUnchanged(agents, agents', a)
       /\ ( /\ last.op = "assign" /\ last.code = 200
            /\ last'.op = "unassign" /\ last'.t = last.t /\ last'.a = last.a )
          => /\ last'.code = 200
             /\ tasks'[last.t].agentId = Null /\ tasks'[last.t].status = "pending"
             /\ agents'[last.a].currentTaskId = Null
             /\ agents'[last.a].status = "idle"]_vars

\* An Unassign has succeeded and both the task and the agent are stored.
C6_Witness ==
    /\ last.op = "unassign" /\ last.code = 200
    /\ last.t \in DOMAIN tasks /\ last.a \in DOMAIN agents
    /\ tasks[last.t].agentId = Null /\ tasks[last.t].status = "pending"
    /\ agents[last.a].currentTaskId = Null /\ agents[last.a].status = "idle"

\* C7: no two stored tasks have the same non-null agentId and no two stored
\* agents have the same non-null currentTaskId.
C7_OneToOne ==
    /\ \A t1, t2 \in DOMAIN tasks :
          (tasks[t1].agentId /= Null /\ tasks[t1].agentId = tasks[t2].agentId) => t1 = t2
    /\ \A a1, a2 \in DOMAIN agents :
          (agents[a1].currentTaskId /= Null
             /\ agents[a1].currentTaskId = agents[a2].currentTaskId) => a1 = a2

\* C8: a successful Delete Agent A leaves every task that had agentId = A with
\* agentId = null and status "pending", removes A, and leaves no task that
\* references A.
C8_DeleteAgentEffect ==
    [][Answered("deleteAgent", 200) =>
        LET a == last'.a
        IN  /\ a \in DOMAIN agents /\ a \notin DOMAIN agents'
            /\ DOMAIN tasks' = DOMAIN tasks
            /\ \A t \in DOMAIN tasks :
                  tasks[t].agentId = a =>
                      tasks'[t].agentId = Null /\ tasks'[t].status = "pending"
            /\ \A t \in DOMAIN tasks' : tasks'[t].agentId /= a]_vars

\* An agent that two tasks referenced has been deleted.
C8_Witness ==
    /\ last.op = "deleteAgent" /\ last.code = 200 /\ last.matched = 2
    /\ last.a \notin DOMAIN agents
    /\ \A t \in DOMAIN tasks : tasks[t].agentId = Null /\ tasks[t].status = "pending"
\* C9: after a successful Delete Task T no stored task lists T as a dependency,
\* T is not stored, and the stored agent T was assigned to has no current task
\* and status "idle".
C9_DeleteTaskEffect ==
    [][Answered("deleteTask", 200) =>
        LET t == last'.t
        IN  /\ t \in DOMAIN tasks /\ t \notin DOMAIN tasks'
            /\ \A x \in DOMAIN tasks' : t \notin tasks'[x].dependencies
            /\ tasks[t].agentId \in DOMAIN agents =>
                  /\ tasks[t].agentId \in DOMAIN agents'
                  /\ agents'[tasks[t].agentId].currentTaskId = Null
                  /\ agents'[tasks[t].agentId].status = "idle"]_vars

\* A task that two tasks depended on, assigned to a stored agent, has been
\* deleted.
C9_Witness ==
    /\ last.op = "deleteTask" /\ last.code = 200 /\ last.matched = 2
    /\ last.a \in DOMAIN agents
    /\ agents[last.a].currentTaskId = Null /\ agents[last.a].status = "idle"
    /\ \A x \in DOMAIN tasks : last.t \notin tasks[x].dependencies
\* The handlers that break a task/agent pairing.
Breaking == {"unassign", "deleteTask", "deleteAgent"}

\* Call c found a pairing and has so far reset exactly one of its two sides.
HalfReset(c) ==
    /\ c.op \in Breaking /\ c.seen /= Null
    /\ ("task" \in c.done) /= ("agent" \in c.done)

\* C10: breaking a pairing resets the task side and the agent side atomically:
\* no state with only one side reset exists while another request is being
\* served, and none remains once the call has ended with a rejected write.
C10_BreakIsAtomic ==
    \A s \in Slots :
        HalfReset(inflight[s]) =>
            /\ \A r \in Slots \ {s} : inflight[r] = NoCall
            /\ ~(inflight[s].pc = "done" /\ inflight[s].failed)

\* C11: no stored task lists its own id among its dependencies, whether the
\* list was set by POST /api/tasks or by PUT /api/tasks/[id].
C11_NoSelfDependency ==
    \A t \in DOMAIN tasks : t \notin tasks[t].dependencies

\* C12: every stored task that a stored task's dependencies name has the
\* projectId of the depending task.
C12_SameProjectDependencies ==
    \A t \in DOMAIN tasks : \A d \in tasks[t].dependencies :
        d \in DOMAIN tasks => tasks[d].projectId = tasks[t].projectId

\* DELETE /api/projects/[id] of a stored project has been answered with 200.
ProjectDeleted == Answered("deleteProject", 200)

\* C13: after a successful DELETE /api/projects/[id] of project P, P is not
\* stored, no task, agent or planning session has projectId = P, and every
\* document of another project is stored unchanged.
C13_DeleteProjectCascade ==
    [][ProjectDeleted =>
        LET P == last'.p IN
        /\ P \in DOMAIN projects /\ P \notin DOMAIN projects'
        /\ OfProject(tasks', P) = {}
        /\ OfProject(agents', P) = {}
        /\ OfProject(sessions', P) = {}
        /\ \A x \in DOMAIN tasks \ OfProject(tasks, P) :
                x \in DOMAIN tasks' /\ tasks'[x] = tasks[x]
        /\ \A x \in DOMAIN agents \ OfProject(agents, P) :
                x \in DOMAIN agents' /\ agents'[x] = agents[x]
        /\ \A x \in DOMAIN sessions \ OfProject(sessions, P) :
                x \in DOMAIN sessions' /\ sessions'[x] = sessions[x]
        /\ \A x \in DOMAIN projects \ {P} :
                x \in DOMAIN projects' /\ projects'[x] = projects[x]]_vars

\* A project with a task, an agent and a planning session has been deleted,
\* and a task of another stored project is left.
C13_Witness ==
    /\ last.op = "deleteProject" /\ last.code = 200 /\ last.matched = 3
    /\ \E t \in DOMAIN tasks : tasks[t].projectId \in DOMAIN projects

\* The tasks a computation counts: those created within the selected timeframe
\* for calculateMetrics, all the tasks it is given for the other two.
CountedTasks ==
    IF metrics.fn = "calculateMetrics"
    THEN SelectSeq(statsInput.tasks,
            LAMBDA task : \/ metrics.selectedTimeframe = "all"
                          \/ metrics.selectedTimeframe = "month" /\ task.age <= 30
                          \/ metrics.selectedTimeframe = "week" /\ task.age <= 7)
    ELSE statsInput.tasks

AllCompleted(ts) == \A i \in 1..Len(ts) : ts[i].status = "completed"

\* C14 as stated: completionRate is 0 for a project without tasks and 100 for a
\* project whose tasks (at least one) are all completed; averageEfficiency is 0
\* for a project without agents.
C14_StatsOfAllTasks ==
    metrics.fn /= "none" =>
        /\ statsInput.tasks = <<>> => metrics.completionRate = Number(0)
        /\ statsInput.tasks /= <<>> /\ AllCompleted(statsInput.tasks) =>
                metrics.completionRate = Number(100)
        /\ metrics.fn /= "getProjectStats" /\ statsInput.agents = <<>> =>
                metrics.averageEfficiency = Number(0)

\* C14: completionRate is 0 when no task is counted and 100 when every counted
\* task (at least one) is completed, the counted tasks of calculateMetrics
\* being those of the selected timeframe; averageEfficiency is 0 for an empty
\* agent list.
C14_StatsOfCountedTasks ==
    metrics.fn /= "none" =>
        /\ CountedTasks = <<>> => metrics.completionRate = Number(0)
        /\ CountedTasks /= <<>> /\ AllCompleted(CountedTasks) =>
                metrics.completionRate = Number(100)
        /\ metrics.fn /= "getProjectStats" /\ statsInput.agents = <<>> =>
                metrics.averageEfficiency = Number(0)

\* calculateMetrics reported 100 for the tasks of the last week, all completed,
\* of a project with an older task that is not, and 0 for no agents.
C14_Witness ==
    /\ metrics.fn = "calculateMetrics" /\ metrics.selectedTimeframe = "week"
    /\ metrics.completionRate = Number(100)
    /\ ~AllCompleted(statsInput.tasks)
    /\ statsInput.agents = <<>> /\ metrics.averageEfficiency = Number(0)

\* C15: a request that carries a malformed identifier is answered with 400.
C15_MalformedIdIs400 == last.malformed => last.code = 400

\* C16: the page size reported in pagination.limit is at most 100, and
\* pagination.pages = ceil(total / limit).
C16_LimitAtMost100 ==
    last.op \in {"listTasks", "listAgents"} /\ last.code = 200 =>
        /\ listing.limit <= 100
        /\ listing.pages * listing.limit >= listing.total
        /\ (listing.pages - 1) * listing.limit < listing.total \/ listing.total = 0

\* C17: every handler invocation ends with a JSON envelope: its status is 200
\* or 201 (success = true) or a 4xx/5xx status (success = false), whatever was
\* thrown inside the handler.
C17_AlwaysEnvelope ==
    last.op /= "none" =>
        \/ last.code \in {200, 201}
        \/ last.code \in 400..599

\* A handler threw and its catch block answered with 500 after a request that
\* had been answered with 200.
C17_Witness ==
    /\ last.op = "deleteTask" /\ last.code = 500
    /\ tasks /= <<>> /\ agents /= <<>>

\* C18: a stored task with status "pending" has no agentId and a stored task
\* with status "in-progress" has a non-null agentId.
C18_StatusAgreesWithAssignment ==
    \A t \in DOMAIN tasks :
        /\ tasks[t].status = "pending" => tasks[t].agentId = Null
        /\ tasks[t].status = "in-progress" => tasks[t].agentId /= Null

\* The task and agent actions the Dashboard dispatches.
TaskAgentActions ==
    {"CREATE_TASK", "UPDATE_TASK", "DELETE_TASK", "CREATE_AGENT", "UPDATE_AGENT",
     "DELETE_AGENT", "SUSPEND_AGENT", "ASSIGN_TASK"}

\* Action a shows in project q of the store.
AppliedTo(q, a) ==
    CASE a.type = "CREATE_TASK" -> a.id \in DOMAIN q.tasks
      [] a.type = "DELETE_TASK" -> a.id \notin DOMAIN q.tasks
      [] a.type = "UPDATE_TASK" ->
            a.id \in DOMAIN q.tasks /\ q.tasks[a.id].status = a.status
      [] a.type = "ASSIGN_TASK" ->
            a.id \in DOMAIN q.tasks /\ q.tasks[a.id].agentId = a.agentId
      [] a.type = "CREATE_AGENT" -> a.id \in DOMAIN q.agents
      [] a.type = "DELETE_AGENT" -> a.id \notin DOMAIN q.agents
      [] a.type = "UPDATE_AGENT" ->
            a.id \in DOMAIN q.agents /\ q.agents[a.id].status = a.status
      [] a.type = "SUSPEND_AGENT" ->
            a.id \in DOMAIN q.agents /\ q.agents[a.id].status = "suspended"

\* C19: each task or agent action the Dashboard dispatches is applied by the
\* reducer to the tasks and agents of the addressed project in the store.
C19_TaskAgentActionsApplied ==
    [][dispatched'.type \in TaskAgentActions /\ dispatched' /= dispatched =>
        \A i \in DOMAIN store'.projects :
            store'.projects[i].id = dispatched'.projectId =>
                AppliedTo(store'.projects[i], dispatched')]_vars

\* The invocation of operation that settled with outcome o is retried: it
\* failed, and not with an ApiError of status 400 to 499.
Retried(o) ==
    /\ o.kind /= "value"
    /\ ~(o.kind = "ApiError" /\ o.statusCode \in 400..499)

\* retryOperation has settled as claimed.
RetrySettledRight ==
    LET n == Len(retry.log) IN
    IF n > 0 /\ retry.log[n].kind = "value"
    THEN retry.result = [state |-> "resolved", with |-> retry.log[n]]
    ELSE /\ retry.result.state = "rejected"
         /\ n > 0 => retry.result.with = retry.log[n]

\* What holds throughout a call of retryOperation.
RetrySafe ==
    /\ Len(retry.log) <= retry.maxRetries
    /\ \A i \in 1..(Len(retry.log) - 1) : Retried(retry.log[i])
    /\ \A i \in 1..Len(retry.log) : retry.log[i].attempt = i
    /\ retry.pc = "done" => RetrySettledRight

TimeoutResult ==
    IF race.promise /= Pending /\ race.timer = "pending" THEN race.promise
    ELSE IF race.promise = Pending /\ race.timer = "fired" THEN TimeoutError
    ELSE race.result

\* The result of withTimeout is as required, settled at most once, and once
\* settled stays as it is.
RaceSafe ==
    /\ race.result = TimeoutResult
    /\ race.settlements <= 1
    /\ race.settlements = 1 <=> race.result /= Pending
    /\ race.result /= Pending => race'.result = race.result

\* C21: withTimeout settles exactly once, with the wrapped promise's outcome
\* if that promise settles before timeoutMs elapses and otherwise with an
\* ApiError of status 408 and code TIMEOUT; the losing side settling later
\* changes nothing.
C21_TimeoutRace == [][RaceSafe]_vars /\ <>(race.result /= Pending)

\* The timer won, and the wrapped promise settled afterwards.
C21_Witness ==
    /\ race.timer = "fired" /\ race.result = TimeoutError
    /\ race.promise \in Settlements /\ race.settlements = 1

\* mongoose.connect is started in this step.
ConnectStarted == Len(mongo'.attempts) > Len(mongo.attempts)

\* C22: connectDB keeps a singleton connection: mongoose.connect is never
\* started while a connection is cached or an attempt is in flight, every
\* caller of a successful attempt gets the same connection, and after a failed
\* attempt the cached promise is cleared, so that a later call starts a new
\* attempt.
C22_SingletonConnection ==
    [][/\ ConnectStarted => mongo.cached.conn = Null /\ ~InFlight(mongo)
       /\ \A c, d \in 1..MaxCallers :
            mongo'.callers[c].pc = "returned" /\ mongo'.callers[d].pc = "returned"
                => /\ mongo'.callers[c].got = mongo'.callers[d].got
                   /\ mongo'.callers[c].got = mongo'.cached.conn
                   /\ mongo'.attempts[mongo'.cached.conn] = "resolved"
       /\ (mongo'.queue = <<>> /\ mongo'.cached.conn = Null /\ ~InFlight(mongo'))
            => mongo'.cached.promise = Null
       /\ (\E c \in 1..MaxCallers : ConnectDB(c))
            /\ mongo.cached.conn = Null /\ ~InFlight(mongo)
            => ConnectStarted]_vars

\* A first attempt failed, a second one succeeded and every caller has
\* returned the connection of the second.
C22_Witness ==
    /\ Len(mongo.attempts) = 2
    /\ mongo.attempts[1] = "rejected" /\ mongo.attempts[2] = "resolved"
    /\ \A c \in 1..MaxCallers :
        mongo.callers[c].pc = "returned" /\ mongo.callers[c].got = 2

\* C23: state.currentProject is null or has the id of a project contained in
\* state.projects, after any sequence of reducer actions, the sample project's
\* creation racing with loadProjects included.
C23_CurrentProjectListed ==
    \/ store.currentProject = NullProject
    \/ \E i \in DOMAIN store.projects :
            store.projects[i].id = store.currentProject.id

\* An API function of the AppProvider is in flight.
ApiInFlight == \E slot \in 1..MaxCalls : provider.calls[slot].fn /= "none"

\* C24: state.loading is true as long as at least one API function of the
\* AppProvider has not completed, and false once all have.
C24_LoadingWhileInFlight == store.loading <=> ApiInFlight

\* C25: every agent with a non-null currentTaskId T refers to a stored task T
\* whose agentId is that agent, every working agent has a currentTaskId and
\* every idle agent has none.
C25_AgentSidePairing ==
    \A a \in DOMAIN agents :
        /\ agents[a].currentTaskId /= Null =>
                /\ agents[a].currentTaskId \in DOMAIN tasks
                /\ tasks[agents[a].currentTaskId].agentId = a
        /\ agents[a].status = "working" => agents[a].currentTaskId /= Null
        /\ agents[a].status = "idle" => agents[a].currentTaskId = Null

\* Call c is an Assign that has answered 200.
AssignSucceeded(c) == c /= NoCall /\ c.op = "assign" /\ c.pc = "done" /\ c.code = 200

\* C26: two interleaving Assign requests on the same task with different
\* agents, or on the same agent with different tasks, do not both succeed, and
\* once both have completed no task is the current task of two agents and no
\* agent is the agent of two tasks.
C26_NoConflictingAssigns ==
    \A s, r \in Slots :
        LET c == inflight[s]
            d == inflight[r]
        IN  AssignSucceeded(c) /\ AssignSucceeded(d) =>
                /\ ~( /\ c.t = d.t /\ c.a /= d.a
                      /\ c.a \in DOMAIN agents /\ d.a \in DOMAIN agents
                      /\ agents[c.a].currentTaskId = c.t
                      /\ agents[d.a].currentTaskId = c.t )
                /\ ~( /\ c.a = d.a /\ c.t /= d.t
                      /\ c.t \in DOMAIN tasks /\ d.t \in DOMAIN tasks
                      /\ tasks[c.t].agentId = c.a
                      /\ tasks[d.t].agentId = c.a )

\* C27: an Assign or Unassign that answers 400, 404, 409 or 500 has written
\* neither to the task nor to the agent; in particular, when one of its two
\* parallel updates is rejected the other is not applied.
C27_FailureWritesNothing ==
    \A s \in Slots :
        LET c == inflight[s] IN
        (c /= NoCall /\ c.op \in Parallel /\ c.code \in {400, 404, 409, 500})
            => c.done = {}

\* C28: a task is linked only to an agent of its own project, whether the
\* link was made by Assign, by POST /api/tasks or by PUT /api/tasks/[id].
C28_LinkWithinProject ==
    \A t \in DOMAIN tasks :
        (tasks[t].agentId /= Null /\ tasks[t].agentId \in DOMAIN agents)
            => tasks[t].projectId = agents[tasks[t].agentId].projectId

\* C29: every id in a planning session's tasks or agents and every id in a
\* task's dependencies names a stored task or agent, after any sequence of
\* Delete Task, Delete Agent and Delete Project.
C29_ReferencesResolve ==
    /\ \A x \in DOMAIN sessions :
            /\ sessions[x].tasks \subseteq DOMAIN tasks
            /\ sessions[x].agents \subseteq DOMAIN agents
    /\ \A t \in DOMAIN tasks : tasks[t].dependencies \subseteq DOMAIN tasks

\* The document was stored with the number the body gave.
StoredAsGiven(posted, max) ==
    (posted.given.type = "number" /\ posted.given.value \in 0..max)
        => posted.code = 201 /\ posted.stored = posted.given

\* C30: an agent posted with efficiency e in [0,1], 0 included, is stored
\* with efficiency e, and a task posted with estimatedHours h in [0,1000], 0
\* included, is stored with estimatedHours h; the default applies only when
\* the field is omitted.
C30_GivenValueStored ==
    /\ StoredAsGiven(fields.efficiency, MaxEfficiency)
    /\ StoredAsGiven(fields.estimatedHours, MaxEstimatedHours)
====
